---- MODULE Spec2Model ----
(***************************************************************************)
(* Loom: plugin registration (createLoom / createRuntime), the command     *)
(* contract, route-path derivation and site preparation.                   *)
(*                                                                         *)
(* Strings that the code inspects character by character (file paths,      *)
(* route paths) are sequences of one-character strings.  Error messages    *)
(* are sequences of message parts; a message "contains" a text when that   *)
(* text is one of its parts.                                               *)
(***************************************************************************)
EXTENDS Integers, Sequences, FiniteSets, TLC

VARIABLES
    runtimePlugins,   \* config.runtimePlugins: the plugins createRuntime registers
    runtimeContext,   \* createLoom's runtimeContext object
    nextPlugin,       \* position of createRuntime's for loop
    regPc,            \* "start" | "registering" | "registered" | "failed"
    setupCalls,       \* history: one entry per plugin.setup invocation
    failure,          \* the error createRuntime rejected with
    renderer,         \* createRuntime's result field renderer
    contract,         \* outcome of the command-contract check
    cmdContext,       \* a context handed to the command-contract check
    cmdResult,        \* what the check answered for cmdContext
    rpFile,           \* a content file path returned by scanMdxFiles
    rpPath,           \* toRoutePath(rpFile) once derived
    rpDone,           \* whether rpPath has been derived
    fileSystem,       \* readFile: the source text of each content file under root
    hookPlugins,      \* config.plugins: names of the plugins prepareLoomSite runs
    prepPc,           \* position of prepareLoomSite
    scanFiles,        \* scanResult.files
    fileIndex,        \* position of the for loop over scanResult.files
    pluginIndex,      \* position of the current for loop over config.plugins
    source,           \* let source of the file being processed
    frontmatter,      \* let frontmatter of the file being processed
    mdxDecoration,    \* const mdxDecoration of the file being processed
    mdxFiles,         \* const mdxFiles
    routes,           \* const routes
    layout,           \* const layout
    takenPaths,       \* const takenPaths
    pageCount,        \* pageCount of the returned site
    prepError,        \* the error prepareLoomSite rejected with
    hookLog,          \* history: one entry per hook invocation
    prepRenderer,     \* the renderer argument of prepareLoomSite
    prepPrevious,     \* how an earlier call with another renderer ended
    cliCommand,       \* the command loom was started with: "build" | "dev" | "none"
    cliPort,          \* dev: Number.parseInt(options.port, 10)
    validation,       \* the errors validateMdxFiles reports for the target path
    cliPc,            \* position of the command's action
    cliOutput,        \* the lines written with console.log
    exitCode,         \* process.exitCode
    cliLog,           \* history: validateMdxFiles, renderer.build, renderer.dev calls
    rawPlugins,       \* rawConfig.plugins: the declared plugin list
    cfgIndex,         \* position of normalizeConfig's for loop
    cfgPc,            \* "normalizing" | "resolved" | "failed" | "idle"
    cfgPlugins,       \* normalizeConfig's const plugins
    cfgRuntimePlugins, \* normalizeConfig's const runtimePlugins
    cfgError,         \* the error normalizeConfig threw
    cfgPrevious,      \* what an earlier resolution of rawPlugins gave
    valTree,          \* the .mdx files under the validated path, as walkMdxFiles meets them
    brokenFiles,      \* the files whose contents compile() rejects
    valFiles,         \* validateMdxFiles' scanResult.files
    valIndex,         \* position of validateMdxFiles' for loop
    valErrors,        \* validateMdxFiles' const errors
    valPc,            \* "start" | "files" | "returned" | "idle"
    valResult,        \* the ValidationResult validateMdxFiles returned
    compiled,         \* history: the files handed to compile()
    invocations,      \* the build and dev invocations of one renderer: kind and position
    tempRoot          \* the renderer's directory <packageRoot>/.loom-runtime

regVars == <<runtimePlugins, runtimeContext, nextPlugin, regPc, setupCalls,
             failure, renderer, contract>>

cmdVars == <<cmdContext, cmdResult>>

rpVars == <<rpFile, rpPath, rpDone>>

prepVars == <<fileSystem, hookPlugins, prepPc, scanFiles, fileIndex, pluginIndex,
              source, frontmatter, mdxDecoration, mdxFiles, routes, layout,
              takenPaths, pageCount, prepError, hookLog, prepRenderer, prepPrevious>>

\* the arguments of prepareLoomSite that it never assigns to, and the earlier call
callVars == <<prepRenderer, prepPrevious>>

cliVars == <<cliCommand, cliPort, validation, cliPc, cliOutput, exitCode, cliLog>>

cfgVars == <<rawPlugins, cfgIndex, cfgPc, cfgPlugins, cfgRuntimePlugins, cfgError,
             cfgPrevious>>

valVars == <<valTree, brokenFiles, valFiles, valIndex, valErrors, valPc, valResult,
             compiled>>

rendVars == <<invocations, tempRoot>>

vars == <<regVars, cmdVars, rpVars, prepVars, cliVars, cfgVars, valVars, rendVars>>

\* the variables each part of the model leaves alone
nonRegVars ==
    <<cmdVars, rpVars, prepVars, cliVars, cfgVars, valVars, rendVars>>
nonCmdVars ==
    <<regVars, rpVars, prepVars, cliVars, cfgVars, valVars, rendVars>>
nonRpVars ==
    <<regVars, cmdVars, prepVars, cliVars, cfgVars, valVars, rendVars>>
nonPrepVars ==
    <<regVars, cmdVars, rpVars, cliVars, cfgVars, valVars, rendVars>>
nonCliVars ==
    <<cmdVars, rpVars, prepVars, cfgVars, valVars, rendVars>>
nonCfgVars ==
    <<regVars, cmdVars, rpVars, prepVars, cliVars, valVars, rendVars>>
nonValVars == <<regVars, cmdVars, rpVars, prepVars, cfgVars, rendVars>>
nonRendVars == <<regVars, cmdVars, rpVars, prepVars, cliVars, cfgVars, valVars>>

-----------------------------------------------------------------------------
(* Bounds *)

MaxPlugins == 3
\* directory levels above a content file
MaxDepth == 2
\* content files under the root
MaxFiles == 2
\* entries of config.plugins
MaxHookPlugins == 2
\* errors validateMdxFiles reports
MaxErrors == 2
\* entries of rawConfig.plugins
MaxDeclared == 3
\* .mdx files under a validated path
MaxValidated == 3
\* build and dev invocations of one renderer that overlap
MaxInvocations == 2

-----------------------------------------------------------------------------
(* JavaScript values held in the runtime context: typeof and identity *)

Fn(id) == [t |-> "function", v |-> id]
Str(s) == [t |-> "string", v |-> s]
Obj(id) == [t |-> "object", v |-> id]
Null == [t |-> "object", v |-> "null"]
Undefined == [t |-> "undefined", v |-> "undefined"]

\* JavaScript truthiness of a context value
Truthy(value) ==
    /\ value # Undefined
    /\ value # Null
    /\ value # Str("")

EmptyContext == [k \in {} |-> Undefined]

\* context[key], undefined when the key is absent
Get(context, key) == IF key \in DOMAIN context THEN context[key] ELSE Undefined

-----------------------------------------------------------------------------
(* Error messages *)

Contains(message, text) == \E i \in 1..Len(message) : message[i] = text

NoError == [thrown |-> FALSE, message |-> <<>>]

-----------------------------------------------------------------------------
(* Renderer objects handed to defineRendererPlugin *)

ViteReactRenderer == Obj("@loom/renderer-vite-react")
AstroRenderer == Obj("@loom/renderer-astro")
\* a renderer object without a dev function
HeadlessRenderer == Obj("headless-renderer")

\* typeof value[property] for the properties resolveRendererFromContext reads
TypeOfProperty(value, property) ==
    IF value \in {ViteReactRenderer, AstroRenderer}
    THEN (IF property = "name" THEN "string" ELSE "function")
    ELSE IF value = HeadlessRenderer
    THEN (IF property = "name" THEN "string"
          ELSE IF property = "build" THEN "function" ELSE "undefined")
    ELSE "undefined"

-----------------------------------------------------------------------------
(* Outcomes of one plugin.setup invocation *)

Returned(provided) ==
    [kind |-> "return", type |-> "object", provided |-> provided, message |-> <<>>]
ReturnedNothing ==
    [kind |-> "return", type |-> "undefined", provided |-> EmptyContext, message |-> <<>>]
Threw(message) ==
    [kind |-> "throw", type |-> "undefined", provided |-> EmptyContext, message |-> message]

\* fault variant: the setup without its early return on an existing renderer
DefineRendererPluginSetupAlways(rendererObject, context) ==
    Returned("__loomRenderer" :> rendererObject)

\* defineRendererPlugin(renderer).setup
DefineRendererPluginSetup(rendererObject, context) ==
    IF Truthy(Get(context, "__loomRenderer"))
    THEN ReturnedNothing
    ELSE Returned("__loomRenderer" :> rendererObject)

\* deterministic-order scenario: contractPlugin.setup
ContractPluginSetup(context) ==
    IF Get(context, "seed") # Str("stable-order")
    THEN Threw(<<"plugin setup order is not deterministic">>)
    ELSE Returned("list" :> Fn("contract.list") @@ "validate" :> Fn("contract.validate")
                  @@ "build" :> Fn("contract.build") @@ "dev" :> Fn("contract.dev"))

\* The plugins a configuration may declare (by name)
PluginNames ==
    {"seed", "contract", "partial", "@loom/renderer-vite-react",
     "@loom/renderer-astro", "headless-renderer", "thrower", "noop", "reseed"}

\* plugin.setup(context) of the plugin with this name
Setup(plugin, context) ==
    CASE plugin = "seed" -> Returned("seed" :> Str("stable-order"))
      [] plugin = "contract" -> ContractPluginSetup(context)
      [] plugin = "partial" ->
            Returned("list" :> Fn("partial.list") @@ "validate" :> Fn("partial.validate"))
      [] plugin = "@loom/renderer-vite-react" ->
            DefineRendererPluginSetup(ViteReactRenderer, context)
      [] plugin = "@loom/renderer-astro" ->
            DefineRendererPluginSetup(AstroRenderer, context)
      [] plugin = "headless-renderer" ->
            DefineRendererPluginSetup(HeadlessRenderer, context)
      [] plugin = "thrower" -> Threw(<<"boom">>)
      [] plugin = "noop" -> ReturnedNothing
      [] plugin = "reseed" ->
            Returned("seed" :> Str("other") @@ "list" :> Str("not-a-function"))

RendererPluginNames ==
    {"@loom/renderer-vite-react", "@loom/renderer-astro", "headless-renderer"}

RendererOf(plugin) ==
    CASE plugin = "@loom/renderer-vite-react" -> ViteReactRenderer
      [] plugin = "@loom/renderer-astro" -> AstroRenderer
      [] plugin = "headless-renderer" -> HeadlessRenderer

-----------------------------------------------------------------------------
(* createLoom *)

NoInitialContext == [given |-> FALSE, entries |-> EmptyContext]

\* const runtimeContext = { ...(initialContext ?? {}) }
CreateLoom(initialContext) ==
    IF initialContext.given THEN initialContext.entries ELSE EmptyContext

\* the argument createRuntime passes to createLoom
CreateRuntimeInitialContext == NoInitialContext

\* fault variant: an entry already in the context is not overwritten
AssignEntriesKeepExisting(context, provided) ==
    [key \in DOMAIN context \cup DOMAIN provided |->
        IF key \in DOMAIN context THEN context[key] ELSE provided[key]]

\* for (const [key, value] of Object.entries(provided)) runtimeContext[key] = value
AssignEntries(context, provided) ==
    [key \in DOMAIN context \cup DOMAIN provided |->
        IF key \in DOMAIN provided THEN provided[key] ELSE context[key]]

\* fault variant: the object test of use() inverted
MergeProvidedInverted(context, outcome) ==
    IF outcome.type # "object"
    THEN AssignEntriesKeepExisting(context, outcome.provided)
    ELSE context

\* the body of use() after the awaited setup returned
MergeProvided(context, outcome) ==
    IF outcome.type = "object"
    THEN AssignEntries(context, outcome.provided)
    ELSE context

\* fault variant: a rejected use() rolls the whole context back
ContextAfterThrowRolledBack(context) == EmptyContext

\* the context after use() rejected: the throw leaves use() before any assignment
ContextAfterThrow(context) == context

\* fault variant: the loop visits the plugins last to first
PluginAtReversed(position) == runtimePlugins[Len(runtimePlugins) + 1 - position]

\* the plugin createRuntime's loop visits at a position
PluginAt(position) == runtimePlugins[position]

\* the rejection createRuntime propagates when the awaited setup throws
Rejection(plugin, outcome) == [thrown |-> TRUE, message |-> outcome.message]

\* resolveRendererFromContext
ResolveRendererFromContext(context) ==
    LET value == Get(context, "__loomRenderer") IN
    IF ~Truthy(value) \/ value.t # "object" THEN Undefined
    ELSE IF TypeOfProperty(value, "name") # "string" THEN Undefined
    ELSE IF TypeOfProperty(value, "build") # "function" THEN Undefined
    ELSE IF TypeOfProperty(value, "dev") # "function" THEN Undefined
    ELSE value

-----------------------------------------------------------------------------
(* The command contract *)

RequiredCommands == <<"list", "validate", "build", "dev">>

IsCallable(context, key) == Get(context, key).t = "function"

\* fault variant: a command counts as present when its key exists
MissingCommandsAbsentOnly(context) ==
    SelectSeq(RequiredCommands, LAMBDA key : key \notin DOMAIN context)

MissingCommands(context) ==
    SelectSeq(RequiredCommands, LAMBDA key : ~IsCallable(context, key))

NeedsRendererHint(missing) ==
    \E i \in 1..Len(missing) : missing[i] \in {"build", "dev"}

ContractPending == [state |-> "pending", missing |-> <<>>, message |-> <<>>]

EnforceCommandContract(context) ==
    LET missing == MissingCommands(context) IN
    IF missing = <<>>
    THEN [state |-> "ok", missing |-> <<>>, message |-> <<>>]
    ELSE [state |-> "error", missing |-> missing,
          message |-> <<"missing required command function(s): ">> \o missing
                      \o (IF NeedsRendererHint(missing)
                          THEN <<"renderer plugin">> ELSE <<>>)]

-----------------------------------------------------------------------------
(* createRuntime: registration of config.runtimePlugins *)

PluginLists == UNION {[1..n -> PluginNames] : n \in 0..MaxPlugins}

\* the registry before createRuntime is called with the given plugin list
RegistryAtStart(plugins) ==
    /\ runtimePlugins = plugins
    /\ runtimeContext = EmptyContext
    /\ nextPlugin = 1
    /\ regPc = "start"
    /\ setupCalls = <<>>
    /\ failure = NoError
    /\ renderer = Undefined
    /\ contract = ContractPending

CmdIdle ==
    /\ cmdContext = EmptyContext
    /\ cmdResult = ContractPending

RpIdle ==
    /\ rpFile = <<>>
    /\ rpPath = <<>>
    /\ rpDone = FALSE

\* Number.parseInt of the --port option: NaN, or an integer
NotANumber == [nan |-> TRUE, value |-> 0]
Port(number) == [nan |-> FALSE, value |-> number]

\* the process before the action of the command runs
CliAtStart(command, port, errors) ==
    /\ cliCommand = command
    /\ cliPort = port
    /\ validation = errors
    /\ cliPc = "start"
    /\ cliOutput = <<>>
    /\ exitCode = 0
    /\ cliLog = <<>>

CliIdle == CliAtStart("none", NotANumber, <<>>)

\* no resolution of the declared list has ended yet
NoResolution ==
    [ended |-> FALSE, pc |-> "idle", plugins |-> <<>>, runtimePlugins |-> <<>>,
     error |-> <<>>]

\* normalizeConfig before its for loop runs
ConfigAt(declared, pc) ==
    /\ rawPlugins = declared
    /\ cfgIndex = 1
    /\ cfgPc = pc
    /\ cfgPlugins = <<>>
    /\ cfgRuntimePlugins = <<>>
    /\ cfgError = <<>>
    /\ cfgPrevious = NoResolution

ConfigAtStart(declared) == ConfigAt(declared, "normalizing")

CfgIdle == ConfigAt(<<>>, "idle")

\* validateMdxFiles has not returned
NoValidationResult == [returned |-> FALSE, filesChecked |-> 0, errors |-> <<>>, errorCount |-> 0]

\* validateMdxFiles before scanMdxFiles runs
ValidateAt(tree, broken, pc) ==
    /\ valTree = tree
    /\ brokenFiles = broken
    /\ valFiles = <<>>
    /\ valIndex = 1
    /\ valErrors = <<>>
    /\ valPc = pc
    /\ valResult = NoValidationResult
    /\ compiled = <<>>

ValIdle == ValidateAt(<<>>, {}, "idle")

\* the directory does not exist
NoDirectory == [exists |-> FALSE, template |-> FALSE, content |-> 0, site |-> 0]

\* the renderer with the given invocations about to start, .loom-runtime absent
RendererAtStart(kinds) ==
    /\ invocations = [i \in DOMAIN kinds |-> [kind |-> kinds[i], pc |-> "start"]]
    /\ tempRoot = NoDirectory

RendIdle == RendererAtStart(<<>>)

\* frontmatter values: typeof and value; strings are character sequences
FmString(chars) == [t |-> "string", v |-> chars]
FmBoolean(b) == [t |-> "boolean", v |-> IF b THEN <<"true">> ELSE <<"false">>]
FmNumber(n) == [t |-> "number", v |-> <<n>>]
FmNull == [t |-> "object", v |-> <<"null">>]
FmUndefined == [t |-> "undefined", v |-> <<>>]

\* const frontmatter: Record<string, unknown> = {}
EmptyFrontmatter == [key \in {} |-> FmUndefined]

\* an optional HTML string: absent, or the given text
NoHtml == [given |-> FALSE, html |-> ""]
Html(text) == [given |-> TRUE, html |-> text]

\* const mdxDecoration = { beforeContentHtml: [], afterContentHtml: [] }
EmptyDecoration ==
    [given |-> TRUE, beforeContentHtml |-> <<>>, afterContentHtml |-> <<>>,
     replaceContentHtml |-> NoHtml]

\* the mdxDecoration of a route that has none
NoDecoration ==
    [given |-> FALSE, beforeContentHtml |-> <<>>, afterContentHtml |-> <<>>,
     replaceContentHtml |-> NoHtml]

SlotRegions == {"header", "footer", "sidebarTop", "sidebarBottom"}
ClassRegions == {"content", "footer", "header", "main", "root", "sidebar"}

\* const layout; a class name that is not set is the empty string
DefaultLayout ==
    [hideDefaultFooter |-> FALSE,
     hideDefaultHeader |-> FALSE,
     hideDefaultSidebar |-> FALSE,
     slots |-> [region \in SlotRegions |-> <<>>],
     classNames |-> [region \in ClassRegions |-> [given |-> FALSE, text |-> <<>>]]]

EmptyFileSystem == [file \in {} |-> <<>>]

\* no earlier call of prepareLoomSite has ended
NoSite ==
    [ended |-> FALSE, renderer |-> "", pc |-> "start", routes |-> <<>>, layout |-> <<>>,
     mdxFiles |-> <<>>, pageCount |-> 0, error |-> NoError]

\* prepareLoomSite about to be called on the given files with the given config.plugins
PrepAtStartWith(files, plugins, rendererId) ==
    /\ fileSystem = files
    /\ hookPlugins = plugins
    /\ prepPc = "start"
    /\ scanFiles = <<>>
    /\ fileIndex = 1
    /\ pluginIndex = 1
    /\ source = <<>>
    /\ frontmatter = EmptyFrontmatter
    /\ mdxDecoration = EmptyDecoration
    /\ mdxFiles = <<>>
    /\ routes = <<>>
    /\ layout = DefaultLayout
    /\ takenPaths = {}
    /\ pageCount = 0
    /\ prepError = NoError
    /\ hookLog = <<>>
    /\ prepRenderer = rendererId
    /\ prepPrevious = NoSite

PrepAtStart(files, plugins) == PrepAtStartWith(files, plugins, "vite-react")

PrepIdle == PrepAtStart(EmptyFileSystem, <<>>)

InitRegistry ==
    /\ \E plugins \in PluginLists : RegistryAtStart(plugins)
    /\ CmdIdle
    /\ RpIdle
    /\ PrepIdle
    /\ CliIdle
    /\ CfgIdle
    /\ ValIdle
    /\ RendIdle

\* const loom = createLoom()
CreateRuntime ==
    /\ regPc = "start"
    /\ runtimeContext' = CreateLoom(CreateRuntimeInitialContext)
    /\ nextPlugin' = 1
    /\ regPc' = "registering"
    /\ UNCHANGED <<runtimePlugins, setupCalls, failure, renderer, contract>>
    /\ UNCHANGED nonRegVars

\* await loom.use(plugin), one iteration of createRuntime's loop
Use ==
    /\ regPc = "registering"
    /\ nextPlugin <= Len(runtimePlugins)
    /\ LET plugin == PluginAt(nextPlugin)
           outcome == Setup(plugin, runtimeContext)
       IN /\ setupCalls' = Append(setupCalls,
                [plugin |-> plugin, position |-> nextPlugin,
                 context |-> runtimeContext, outcome |-> outcome])
          /\ IF outcome.kind = "throw"
             THEN /\ failure' = Rejection(plugin, outcome)
                  /\ regPc' = "failed"
                  /\ runtimeContext' = ContextAfterThrow(runtimeContext)
                  /\ UNCHANGED nextPlugin
             ELSE /\ runtimeContext' = MergeProvided(runtimeContext, outcome)
                  /\ nextPlugin' = nextPlugin + 1
                  /\ UNCHANGED <<failure, regPc>>
    /\ UNCHANGED <<runtimePlugins, renderer, contract>>
    /\ UNCHANGED nonRegVars

\* return { config, renderer: resolveRendererFromContext(loom.context) }
CreateRuntimeReturn ==
    /\ regPc = "registering"
    /\ nextPlugin > Len(runtimePlugins)
    /\ renderer' = ResolveRendererFromContext(runtimeContext)
    /\ regPc' = "registered"
    /\ UNCHANGED <<runtimePlugins, runtimeContext, nextPlugin, setupCalls,
                   failure, contract>>
    /\ UNCHANGED nonRegVars

\* the contract check on the context of a completed registration
EnforceContract ==
    /\ regPc = "registered"
    /\ contract.state = "pending"
    /\ contract' = EnforceCommandContract(runtimeContext)
    /\ UNCHANGED <<runtimePlugins, runtimeContext, nextPlugin, regPc,
                   setupCalls, failure, renderer>>
    /\ UNCHANGED nonRegVars

NextRegistry ==
    \/ CreateRuntime
    \/ Use
    \/ CreateRuntimeReturn
    \/ EnforceContract

SpecRegistry == InitRegistry /\ [][NextRegistry]_vars

-----------------------------------------------------------------------------
(* The command-contract check as a function of the context *)

ContextValues == {Fn("command"), Str("not-a-function"), Undefined}

CommandContexts ==
    UNION {[keys -> ContextValues] : keys \in SUBSET {"list", "validate", "build", "dev"}}

InitContract ==
    /\ cmdContext \in CommandContexts
    /\ cmdResult = ContractPending
    /\ RegistryAtStart(<<>>)
    /\ RpIdle
    /\ PrepIdle
    /\ CliIdle
    /\ CfgIdle
    /\ ValIdle
    /\ RendIdle

CheckContract ==
    /\ cmdResult.state = "pending"
    /\ cmdResult' = EnforceCommandContract(cmdContext)
    /\ UNCHANGED cmdContext
    /\ UNCHANGED nonCmdVars

NextContract == CheckContract

SpecContract == InitContract /\ [][NextContract]_vars

-----------------------------------------------------------------------------
(* Strings as sequences of characters *)

LowerLetters ==
    <<"a", "b", "c", "d", "e", "f", "g", "h", "i", "j", "k", "l", "m",
      "n", "o", "p", "q", "r", "s", "t", "u", "v", "w", "x", "y", "z">>

UpperLetters ==
    <<"A", "B", "C", "D", "E", "F", "G", "H", "I", "J", "K", "L", "M",
      "N", "O", "P", "Q", "R", "S", "T", "U", "V", "W", "X", "Y", "Z">>

LetterIndex(letters, c) ==
    IF \E i \in 1..Len(letters) : letters[i] = c
    THEN CHOOSE i \in 1..Len(letters) : letters[i] = c
    ELSE 0

Digits == <<"0", "1", "2", "3", "4", "5", "6", "7", "8", "9">>

LowerOf(c) ==
    IF LetterIndex(UpperLetters, c) # 0 THEN LowerLetters[LetterIndex(UpperLetters, c)] ELSE c

\* String.prototype.toLowerCase
ToLowerCase(str) == [i \in 1..Len(str) |-> LowerOf(str[i])]

\* String.prototype.endsWith / startsWith
EndsWith(str, suffix) ==
    /\ Len(suffix) <= Len(str)
    /\ SubSeq(str, Len(str) - Len(suffix) + 1, Len(str)) = suffix

StartsWith(str, prefix) ==
    /\ Len(prefix) <= Len(str)
    /\ SubSeq(str, 1, Len(prefix)) = prefix

\* str.slice(0, -count)
DropLast(str, count) == SubSeq(str, 1, Len(str) - count)

DotMdx == <<".", "m", "d", "x">>
IndexName == <<"i", "n", "d", "e", "x">>
SlashIndex == <<"/">> \o IndexName

\* filePath.replace(/\.mdx$/i, '')
WithoutExt(filePath) ==
    IF EndsWith(ToLowerCase(filePath), DotMdx) THEN DropLast(filePath, Len(DotMdx)) ELSE filePath

\* fault variant: index files are recognised in lower case only
ToRoutePathCaseSensitive(filePath) ==
    LET withoutExt == WithoutExt(filePath) IN
    IF withoutExt = IndexName THEN <<"/">>
    ELSE IF EndsWith(withoutExt, SlashIndex)
    THEN <<"/">> \o DropLast(withoutExt, Len(SlashIndex))
    ELSE <<"/">> \o withoutExt

\* toRoutePath
ToRoutePath(filePath) ==
    LET withoutExt == WithoutExt(filePath) IN
    IF ToLowerCase(withoutExt) = IndexName THEN <<"/">>
    ELSE IF EndsWith(ToLowerCase(withoutExt), SlashIndex)
    THEN <<"/">> \o DropLast(withoutExt, Len(SlashIndex))
    ELSE <<"/">> \o withoutExt

-----------------------------------------------------------------------------
(* More string operations *)

LF == "\n"
CR == "\r"

IsWhitespace(c) == c \in {" ", LF, CR}

RECURSIVE TrimStart(_)
TrimStart(str) ==
    IF str # <<>> /\ IsWhitespace(Head(str)) THEN TrimStart(Tail(str)) ELSE str

RECURSIVE TrimEnd(_)
TrimEnd(str) ==
    IF str # <<>> /\ IsWhitespace(str[Len(str)]) THEN TrimEnd(DropLast(str, 1)) ELSE str

\* String.prototype.trim
Trim(str) == TrimEnd(TrimStart(str))

\* normalizeRoutePath
NormalizeRoutePath(routePath) ==
    LET trimmed == Trim(routePath) IN
    IF trimmed = <<>> \/ trimmed = <<"/">> THEN <<"/">>
    ELSE LET withLeadingSlash ==
                 IF StartsWith(trimmed, <<"/">>) THEN trimmed ELSE <<"/">> \o trimmed
         IN IF EndsWith(withLeadingSlash, <<"/">>)
            THEN DropLast(withLeadingSlash, 1)
            ELSE withLeadingSlash

\* toRouteSlug: the path without its leading slash, undefined (empty) for the root
ToRouteSlug(path) ==
    IF path = <<"/">> THEN <<>>
    ELSE IF StartsWith(path, <<"/">>) THEN Tail(path) ELSE path

\* positions of a character in a string
PositionsOf(str, c) == {i \in 1..Len(str) : str[i] = c}

\* String.prototype.indexOf for one character, 0-based, -1 when absent
IndexOf(str, c) ==
    LET positions == PositionsOf(str, c)
    IN IF positions = {} THEN -1
       ELSE (CHOOSE i \in positions : \A j \in positions : i <= j) - 1

RECURSIVE WithoutTrailingSlashes(_)
WithoutTrailingSlashes(path) ==
    IF Len(path) > 1 /\ path[Len(path)] = "/"
    THEN WithoutTrailingSlashes(DropLast(path, 1))
    ELSE path

\* path.basename (posix): trailing slashes are ignored, the last segment is kept
Basename(path) ==
    LET stripped == WithoutTrailingSlashes(path)
        slashes == PositionsOf(stripped, "/")
    IN IF stripped = <<"/">> \/ slashes = {} THEN stripped
       ELSE SubSeq(stripped,
                   (CHOOSE i \in slashes : \A j \in slashes : j <= i) + 1,
                   Len(stripped))

\* UTF-16 code units of the characters the model uses
CodeUnit(c) ==
    IF LetterIndex(LowerLetters, c) # 0 THEN 96 + LetterIndex(LowerLetters, c)
    ELSE IF LetterIndex(UpperLetters, c) # 0 THEN 64 + LetterIndex(UpperLetters, c)
    ELSE IF LetterIndex(Digits, c) # 0 THEN 47 + LetterIndex(Digits, c)
    ELSE CASE c = LF -> 10 [] c = CR -> 13 [] c = " " -> 32 [] c = "\"" -> 34
           [] c = "#" -> 35 [] c = "'" -> 39 [] c = "-" -> 45 [] c = "." -> 46
           [] c = "/" -> 47 [] c = ":" -> 58

RECURSIVE CodeUnitLess(_, _)
\* a < b for strings: the order of Array.prototype.sort without a comparator
CodeUnitLess(a, b) ==
    IF b = <<>> THEN FALSE
    ELSE IF a = <<>> THEN TRUE
    ELSE IF Head(a) # Head(b) THEN CodeUnit(Head(a)) < CodeUnit(Head(b))
    ELSE CodeUnitLess(Tail(a), Tail(b))

\* primary collation weight of a character: white space, punctuation, digits,
\* then letters without regard to case
PrimaryWeight(c) ==
    CASE c = LF -> 1 [] c = CR -> 2 [] c = " " -> 3 [] c = "-" -> 4
      [] c = ":" -> 5 [] c = "." -> 6 [] c = "'" -> 7 [] c = "\"" -> 8
      [] c = "/" -> 9 [] c = "#" -> 10
      [] OTHER -> 100 + CodeUnit(LowerOf(c))

RECURSIVE PrimaryCompare(_, _)
PrimaryCompare(a, b) ==
    IF a = <<>> /\ b = <<>> THEN 0
    ELSE IF a = <<>> THEN -1
    ELSE IF b = <<>> THEN 1
    ELSE IF PrimaryWeight(Head(a)) < PrimaryWeight(Head(b)) THEN -1
    ELSE IF PrimaryWeight(Head(a)) > PrimaryWeight(Head(b)) THEN 1
    ELSE PrimaryCompare(Tail(a), Tail(b))

RECURSIVE CaseCompare(_, _)
\* the tertiary level: at the first difference in case, lower case comes first
CaseCompare(a, b) ==
    IF a = <<>> \/ b = <<>> THEN 0
    ELSE IF Head(a) = Head(b) THEN CaseCompare(Tail(a), Tail(b))
    ELSE IF Head(a) = LowerOf(Head(a)) THEN -1 ELSE 1

\* left.localeCompare(right)
LocaleCompare(left, right) ==
    IF PrimaryCompare(left, right) # 0
    THEN PrimaryCompare(left, right)
    ELSE CaseCompare(left, right)

-----------------------------------------------------------------------------
(* parseFrontmatter *)

Dashes == <<"-", "-", "-">>

\* where a carriage return is followed by a line feed
CrLfPositions(str) == {i \in 1..(Len(str) - 1) : str[i] = CR /\ str[i + 1] = LF}

RECURSIVE ReplaceCrLf(_)
\* source.replaceAll('\r\n', '\n')
ReplaceCrLf(str) ==
    LET positions == CrLfPositions(str)
    IN IF positions = {} THEN str
       ELSE LET first == CHOOSE i \in positions : \A j \in positions : i <= j
            IN SubSeq(str, 1, first - 1) \o <<LF>>
               \o ReplaceCrLf(SubSeq(str, first + 2, Len(str)))

RECURSIVE Split(_, _)
\* str.split(separator) for a one-character separator
Split(str, separator) ==
    LET index == IndexOf(str, separator)
    IN IF index = -1 THEN <<str>>
       ELSE <<SubSeq(str, 1, index)>> \o Split(SubSeq(str, index + 2, Len(str)), separator)

IsDigits(str) ==
    /\ str # <<>>
    /\ \A i \in 1..Len(str) : LetterIndex(Digits, str[i]) # 0

RECURSIVE DigitsValue(_)
DigitsValue(str) ==
    IF str = <<>> THEN 0
    ELSE 10 * DigitsValue(DropLast(str, 1)) + (LetterIndex(Digits, str[Len(str)]) - 1)

\* Number(rawValue) for the texts content files hold: the empty text is 0, a
\* run of decimal digits is its value, any other text is NaN
ToNumber(rawValue) ==
    IF rawValue = <<>> THEN [nan |-> FALSE, value |-> 0]
    ELSE IF IsDigits(rawValue) THEN [nan |-> FALSE, value |-> DigitsValue(rawValue)]
    ELSE [nan |-> TRUE, value |-> 0]

\* the value parseFrontmatter stores for a raw value
FrontmatterValue(rawValue) ==
    IF rawValue = <<"t", "r", "u", "e">> THEN FmBoolean(TRUE)
    ELSE IF rawValue = <<"f", "a", "l", "s", "e">> THEN FmBoolean(FALSE)
    ELSE IF rawValue = <<"n", "u", "l", "l">> THEN FmNull
    ELSE IF StartsWith(rawValue, <<"\"">>) /\ EndsWith(rawValue, <<"\"">>)
    THEN FmString(SubSeq(rawValue, 2, Len(rawValue) - 1))
    ELSE IF StartsWith(rawValue, <<"'">>) /\ EndsWith(rawValue, <<"'">>)
    THEN FmString(SubSeq(rawValue, 2, Len(rawValue) - 1))
    ELSE IF ~ToNumber(rawValue).nan /\ rawValue # <<>>
    THEN FmNumber(ToNumber(rawValue).value)
    ELSE FmString(rawValue)

RECURSIVE ParseLinesKeepsRead(_, _, _)
\* fault variant: at the end of the text the entries read so far are returned
ParseLinesKeepsRead(lines, index, parsed) ==
    IF index > Len(lines) THEN parsed
    ELSE LET line == lines[index]
             separatorIndex == IndexOf(line, ":")
             key == Trim(SubSeq(line, 1, separatorIndex))
             rawValue == Trim(SubSeq(line, separatorIndex + 2, Len(line)))
         IN IF line = Dashes THEN parsed
            ELSE IF separatorIndex <= 0 THEN ParseLinesKeepsRead(lines, index + 1, parsed)
            ELSE IF key = <<>> THEN ParseLinesKeepsRead(lines, index + 1, parsed)
            ELSE ParseLinesKeepsRead(lines, index + 1,
                                     AssignEntries(parsed, key :> FrontmatterValue(rawValue)))

RECURSIVE ParseLines(_, _, _)
\* the for loop of parseFrontmatter, from lines[index - 1] on
ParseLines(lines, index, parsed) ==
    IF index > Len(lines) THEN EmptyFrontmatter
    ELSE LET line == lines[index]
             separatorIndex == IndexOf(line, ":")
             key == Trim(SubSeq(line, 1, separatorIndex))
             rawValue == Trim(SubSeq(line, separatorIndex + 2, Len(line)))
         IN IF line = Dashes THEN parsed
            ELSE IF separatorIndex <= 0 THEN ParseLines(lines, index + 1, parsed)
            ELSE IF key = <<>> THEN ParseLines(lines, index + 1, parsed)
            ELSE ParseLines(lines, index + 1,
                            AssignEntries(parsed, key :> FrontmatterValue(rawValue)))

ParseFrontmatter(text) ==
    IF ~StartsWith(text, Dashes \o <<LF>>) /\ ~StartsWith(text, Dashes \o <<CR, LF>>)
    THEN EmptyFrontmatter
    ELSE LET lines == Split(ReplaceCrLf(text), LF)
         IN IF lines[1] # Dashes THEN EmptyFrontmatter
            ELSE ParseLines(lines, 2, EmptyFrontmatter)

\* frontmatter[key], undefined when the key is absent
FmGet(parsed, key) == IF key \in DOMAIN parsed THEN parsed[key] ELSE FmUndefined

TitleKey == <<"t", "i", "t", "l", "e">>
NavLabelKey == <<"n", "a", "v", "L", "a", "b", "e", "l">>
SidebarKey == <<"s", "i", "d", "e", "b", "a", "r">>
TypeKey == <<"t", "y", "p", "e">>

\* fault variant: an index file is not told apart, the fallback title is the last
\* segment of the path however it reads
RouteTitleOfPathOnly(parsed, path) ==
    IF FmGet(parsed, TitleKey).t = "string" THEN FmGet(parsed, TitleKey).v
    ELSE Basename(path)

\* typeof frontmatter.title === 'string' ? frontmatter.title
\*                                        : basename(path === '/' ? 'index' : path)
RouteTitle(parsed, path) ==
    IF FmGet(parsed, TitleKey).t = "string" THEN FmGet(parsed, TitleKey).v
    ELSE Basename(IF path = <<"/">> THEN IndexName ELSE path)

\* fault variant: the navLabel of the frontmatter is not looked at
RouteNavLabelIsTitle(parsed, title) == title

\* typeof frontmatter.navLabel === 'string' ? frontmatter.navLabel : title
RouteNavLabel(parsed, title) ==
    IF FmGet(parsed, NavLabelKey).t = "string" THEN FmGet(parsed, NavLabelKey).v ELSE title

\* fault variant: !!frontmatter.sidebar || frontmatter.sidebar === undefined
RouteShowInSidebarUnlessFalsy(parsed) ==
    \/ FmGet(parsed, SidebarKey) = FmUndefined
    \/ ~(\/ FmGet(parsed, SidebarKey) = FmBoolean(FALSE)
         \/ FmGet(parsed, SidebarKey) = FmNumber(0)
         \/ FmGet(parsed, SidebarKey) = FmNull
         \/ FmGet(parsed, SidebarKey) = FmString(<<>>))

\* frontmatter.sidebar !== false
RouteShowInSidebar(parsed) ==
    ~(FmGet(parsed, SidebarKey).t = "boolean" /\ FmGet(parsed, SidebarKey).v = <<"false">>)

-----------------------------------------------------------------------------
(* Content file paths: walkMdxFiles joins directory names and an entry name
   that ends in .mdx in any letter case *)

DirectoryNames == {<<"a">>, <<"b">>, IndexName}

BaseNames ==
    {<<"a">>, <<"b">>, IndexName, <<"I", "n", "d", "e", "x">>,
     <<"x", "i", "n", "d", "e", "x">>, <<>>}

Extensions == {DotMdx, <<".", "M", "D", "X">>}

DirectoryLists == UNION {[1..n -> DirectoryNames] : n \in 0..MaxDepth}

RECURSIVE JoinSlash(_)
\* segments.join('/')
JoinSlash(segments) ==
    IF segments = <<>> THEN <<>>
    ELSE IF Len(segments) = 1 THEN segments[1]
    ELSE segments[1] \o <<"/">> \o JoinSlash(Tail(segments))

\* toPosixPath(relative(rootPath, entryPath))
FileOf(dirs, base, ext) == JoinSlash(dirs \o <<base \o ext>>)

FilePaths ==
    {FileOf(dirs, base, ext) : dirs \in DirectoryLists, base \in BaseNames, ext \in Extensions}

InitRoutePath ==
    /\ rpFile \in FilePaths
    /\ rpPath = <<>>
    /\ rpDone = FALSE
    /\ RegistryAtStart(<<>>)
    /\ CmdIdle
    /\ PrepIdle
    /\ CliIdle
    /\ CfgIdle
    /\ ValIdle
    /\ RendIdle

\* const path = toRoutePath(file)
DeriveRoutePath ==
    /\ ~rpDone
    /\ rpPath' = ToRoutePath(rpFile)
    /\ rpDone' = TRUE
    /\ UNCHANGED rpFile
    /\ UNCHANGED nonRpVars

NextRoutePath == DeriveRoutePath

SpecRoutePath == InitRoutePath /\ [][NextRoutePath]_vars

-----------------------------------------------------------------------------
(* Values exchanged with plugin hooks *)

\* a value of type string | string[] | undefined
Absent == [is |-> "undefined", items |-> <<>>]
One(text) == [is |-> "string", items |-> <<text>>]
Many(texts) == [is |-> "array", items |-> texts]

\* toStringArray
ToStringArray(value) ==
    IF value.is = "undefined" THEN <<>>
    ELSE IF value.is = "string" /\ value.items[1] = "" THEN <<>>
    ELSE value.items

\* an optional string of an extra page, as characters
NoText == [given |-> FALSE, text |-> <<>>]
TextOf(chars) == [given |-> TRUE, text |-> chars]

\* an optional boolean
NoFlag == [given |-> FALSE, flag |-> FALSE]
Flag(b) == [given |-> TRUE, flag |-> b]

\* supplied ?? fallback
\* fault variant: supplied || fallback, a supplied false falls through
OrElseTruthy(supplied, fallback) ==
    IF supplied.given /\ supplied.flag THEN supplied.flag ELSE fallback

OrElse(supplied, fallback) == IF supplied.given THEN supplied.flag ELSE fallback

\* text?.trim() || fallback
TrimmedOr(supplied, fallback) ==
    IF supplied.given /\ Trim(supplied.text) # <<>> THEN Trim(supplied.text) ELSE fallback

\* what a hook invocation produced
HookReturned(value) == [kind |-> "return", value |-> value]
HookThrew(error) == [kind |-> "throw", error |-> error]

\* a part of an error message: a literal text, or a string given as characters
Text(literal) == <<literal>>

\* new Error(message)
ErrorOf(message) == [isError |-> TRUE, isString |-> FALSE, message |-> message]

\* a thrown string, and a thrown value that is neither an Error nor a string,
\* given by its JSON text
ThrownString(message) == [isError |-> FALSE, isString |-> TRUE, message |-> message]
ThrownValue(json) == [isError |-> FALSE, isString |-> FALSE, message |-> <<Text(json)>>]

\* fault variant: the message does not say which hook failed
FormatPluginErrorWithoutHook(pluginName, hookName, error) ==
    <<Text("Plugin \""), Text(pluginName), Text("\" failed: ")>> \o error.message

\* formatPluginError
FormatPluginError(pluginName, hookName, error) ==
    LET detail ==
            IF error.isError THEN error.message
            ELSE IF error.isString THEN error.message
            ELSE <<Text("Unknown error: ")>> \o error.message
    IN <<Text("Plugin \""), Text(pluginName), Text("\" failed in hook \""),
         Text(hookName), Text("\": ")>> \o detail

-----------------------------------------------------------------------------
(* The hook plugins a configuration may declare (by name) *)

HookPluginNames ==
    {"test-plugin", "pages-a", "pages-b", "layout-plugin", "failing-plugin",
     "decor-plugin", "strict-plugin", "extras-plugin"}

\* the hooks each plugin defines
Hooks(plugin) ==
    CASE plugin = "test-plugin" -> {"transformMdx", "mdxPage", "extendLayout", "extendPages"}
      [] plugin = "pages-a" -> {"extendPages"}
      [] plugin = "pages-b" -> {"extendPages"}
      [] plugin = "layout-plugin" -> {"extendLayout"}
      [] plugin = "failing-plugin" -> {"mdxPage", "extendPages"}
      [] plugin = "decor-plugin" -> {"transformMdx", "mdxPage", "extendLayout"}
      [] plugin = "strict-plugin" -> {"transformMdx", "extendLayout", "extendPages"}
      [] plugin = "extras-plugin" -> {"mdxPage", "extendPages"}

\* "---\ntype: adr\n---\n"
AdrFrontmatter ==
    Dashes \o <<LF, "t", "y", "p", "e", ":", " ", "a", "d", "r", LF,
                "s", "i", "d", "e", "b", "a", "r", ":", LF>> \o Dashes \o <<LF>>

\* "\n\nPlugin transform marker."
TransformMarker ==
    <<LF, LF, "P", "l", "u", "g", "i", "n", " ", "t", "r", "a", "n", "s", "f", "o", "r", "m",
      " ", "m", "a", "r", "k", "e", "r", ".">>

\* plugin.hooks.transformMdx(context)
TransformMdxHook(plugin, context) ==
    CASE plugin = "test-plugin" -> HookReturned(context.source \o TransformMarker)
      [] plugin = "decor-plugin" -> HookReturned(AdrFrontmatter \o context.source)
      [] plugin = "strict-plugin" ->
            IF DOMAIN context.frontmatter = {}
            THEN HookThrew(ErrorOf(<<Text("frontmatter required")>>))
            ELSE HookReturned(context.source)

NoContribution ==
    [void |-> TRUE, beforeContentHtml |-> Absent, afterContentHtml |-> Absent,
     replaceContentHtml |-> NoHtml]

\* plugin.hooks.mdxPage(context)
MdxPageHook(plugin, context) ==
    CASE plugin = "test-plugin" ->
            IF FmGet(context.frontmatter, TypeKey) = FmString(<<"a", "d", "r">>)
            THEN HookReturned([void |-> FALSE,
                               beforeContentHtml |->
                                   One("<section id=\"adr-banner\">ADR Context</section>"),
                               afterContentHtml |-> Absent,
                               replaceContentHtml |-> NoHtml])
            ELSE HookReturned(NoContribution)
      [] plugin = "failing-plugin" -> HookThrew(ErrorOf(<<Text("boom")>>))
      [] plugin = "decor-plugin" ->
            HookReturned([void |-> FALSE,
                          beforeContentHtml |-> Many(<<"<b>1</b>", "<b>2</b>">>),
                          afterContentHtml |-> One("<i>decor</i>"),
                          replaceContentHtml |-> Html("<p>decor</p>")])
      [] plugin = "extras-plugin" ->
            HookReturned([void |-> FALSE,
                          beforeContentHtml |-> One(""),
                          afterContentHtml |-> Many(<<"<i>extras</i>">>),
                          replaceContentHtml |-> Html("<p>extras</p>")])

NoSlots == [region \in SlotRegions |-> Absent]
NoClassNames == [region \in {} |-> <<>>]

\* an extendLayout hook that returns nothing
NoLayoutContribution ==
    [void |-> TRUE, hideDefaultHeader |-> NoFlag, hideDefaultFooter |-> NoFlag,
     hideDefaultSidebar |-> NoFlag, classNames |-> NoClassNames, slots |-> NoSlots]

\* plugin.hooks.extendLayout(context)
ExtendLayoutHook(plugin, context) ==
    CASE plugin = "test-plugin" ->
            HookReturned([void |-> FALSE,
                          hideDefaultHeader |-> NoFlag,
                          hideDefaultFooter |-> NoFlag,
                          hideDefaultSidebar |-> NoFlag,
                          classNames |-> NoClassNames,
                          slots |-> ("header" :> One("<div id=\"plugin-header\">Header Extension</div>")
                                     @@ "footer" :> One("<div id=\"plugin-footer\">Footer Extension</div>")
                                     @@ NoSlots)])
      [] plugin = "layout-plugin" ->
            HookReturned([void |-> FALSE,
                          hideDefaultHeader |-> Flag(TRUE),
                          hideDefaultFooter |-> Flag(FALSE),
                          hideDefaultSidebar |-> Flag(TRUE),
                          classNames |-> ("root" :> <<"d", "a", "r", "k">>
                                          @@ "main" :> <<" ">>
                                          @@ "footer" :> <<>>),
                          slots |-> ("sidebarTop" :> Many(<<"<a>1</a>", "<a>2</a>">>)
                                     @@ "header" :> One("")
                                     @@ NoSlots)])
      [] plugin = "decor-plugin" ->
            HookReturned([void |-> FALSE,
                          hideDefaultHeader |-> Flag(FALSE),
                          hideDefaultFooter |-> Flag(TRUE),
                          hideDefaultSidebar |-> NoFlag,
                          classNames |-> ("root" :> <<" ", "w", "i", "d", "e", " ">>),
                          slots |-> ("sidebarTop" :> One("<a>decor</a>") @@ NoSlots)])
      [] plugin = "strict-plugin" ->
            IF context.routes = <<>>
            THEN HookThrew(ThrownString(<<Text("no routes")>>))
            ELSE HookReturned(NoLayoutContribution)

SamePath == <<"s", "a", "m", "e", "-", "p", "a", "t", "h">>

\* plugin.hooks.extendPages(context); a hook that returns nothing yields no pages
ExtendPagesHook(plugin, context) ==
    CASE plugin = "test-plugin" ->
            HookReturned(<<[path |-> <<"/", "a", "d", "r", "-", "t", "r", "e", "e">>,
                            title |-> TextOf(<<"A", "D", "R", " ", "T", "r", "e", "e">>),
                            navLabel |-> TextOf(<<"A", "D", "R", " ", "T", "r", "e", "e">>),
                            html |-> "<h1>ADR Tree</h1><p>Relationships.</p>",
                            showInSidebar |-> NoFlag]>>)
      [] plugin = "pages-a" ->
            HookReturned(<<[path |-> <<"/">> \o SamePath,
                            title |-> NoText,
                            navLabel |-> NoText,
                            html |-> "<p>a</p>",
                            showInSidebar |-> Flag(FALSE)]>>)
      [] plugin = "pages-b" ->
            HookReturned(<<[path |-> <<"a", "/">>,
                            title |-> TextOf(<<" ">>),
                            navLabel |-> TextOf(<<" ", "B", " ">>),
                            html |-> "<p>b</p>",
                            showInSidebar |-> NoFlag],
                           [path |-> <<" ">> \o SamePath \o <<"/", " ">>,
                            title |-> NoText,
                            navLabel |-> NoText,
                            html |-> "<p>b</p>",
                            showInSidebar |-> NoFlag]>>)
      [] plugin = "strict-plugin" -> HookThrew(ThrownValue("{\"code\":1}"))
      [] plugin = "extras-plugin" ->
            HookReturned(<<[path |-> <<"e", "x", "t", "r", "a", "s", "/", "/">>,
                            title |-> TextOf(<<" ", "E", "x", "t", "r", "a", "s">>),
                            navLabel |-> NoText,
                            html |-> "<p>extras</p>",
                            showInSidebar |-> Flag(TRUE)]>>)
      [] plugin = "failing-plugin" ->
            HookReturned(<<[path |-> <<"/", "d", "u", "p">>,
                            title |-> NoText,
                            navLabel |-> NoText,
                            html |-> "<p>1</p>",
                            showInSidebar |-> NoFlag],
                           [path |-> <<"d", "u", "p", "/">>,
                            title |-> NoText,
                            navLabel |-> NoText,
                            html |-> "<p>2</p>",
                            showInSidebar |-> NoFlag]>>)

-----------------------------------------------------------------------------
(* prepareLoomSite *)

NoFile == <<>>

RECURSIVE SortFiles(_)
\* files.sort(): ascending by UTF-16 code units
SortFiles(files) ==
    IF files = {} THEN <<>>
    ELSE LET least == CHOOSE f \in files : \A g \in files \ {f} : CodeUnitLess(f, g)
         IN <<least>> \o SortFiles(files \ {least})

\* the route pushed for a content file
MdxRoute(file, parsed, path, decoration) ==
    [kind |-> "mdx",
     file |-> file,
     frontmatter |-> parsed,
     html |-> NoHtml,
     path |-> path,
     slug |-> ToRouteSlug(path),
     title |-> RouteTitle(parsed, path),
     navLabel |-> RouteNavLabel(parsed, RouteTitle(parsed, path)),
     showInSidebar |-> RouteShowInSidebar(parsed),
     mdxDecoration |-> decoration]

\* the route pushed for an extra page at the normalized path
HtmlRoute(page, path) ==
    LET title == TrimmedOr(page.title, Basename(IF path = <<"/">> THEN IndexName ELSE path))
    IN [kind |-> "html",
        file |-> NoFile,
        frontmatter |-> EmptyFrontmatter,
        html |-> Html(page.html),
        path |-> path,
        slug |-> ToRouteSlug(path),
        title |-> title,
        navLabel |-> TrimmedOr(page.navLabel, title),
        showInSidebar |-> OrElse(page.showInSidebar, TRUE),
        mdxDecoration |-> NoDecoration]

\* fault variant: a replace fragment already set is kept
DecorateFirstReplaceWins(decoration, contribution) ==
    [given |-> TRUE,
     beforeContentHtml |->
         decoration.beforeContentHtml \o ToStringArray(contribution.beforeContentHtml),
     afterContentHtml |->
         decoration.afterContentHtml \o ToStringArray(contribution.afterContentHtml),
     replaceContentHtml |->
         IF decoration.replaceContentHtml.given
         THEN decoration.replaceContentHtml
         ELSE contribution.replaceContentHtml]

\* the decoration after one mdxPage contribution
Decorate(decoration, contribution) ==
    [given |-> TRUE,
     beforeContentHtml |->
         decoration.beforeContentHtml \o ToStringArray(contribution.beforeContentHtml),
     afterContentHtml |->
         decoration.afterContentHtml \o ToStringArray(contribution.afterContentHtml),
     replaceContentHtml |->
         IF contribution.replaceContentHtml.given
         THEN contribution.replaceContentHtml
         ELSE decoration.replaceContentHtml]

\* [layout.classNames[key], value].filter(Boolean).join(' ').trim() || undefined
\* fault variant: without the final || undefined an empty result is kept as a string
MergedClassNameKeepsEmpty(existing, value) ==
    TextOf(Trim(IF existing.given /\ existing.text # <<>>
                THEN existing.text \o <<" ">> \o value
                ELSE value))

MergedClassName(existing, value) ==
    LET merged == Trim(IF existing.given /\ existing.text # <<>>
                       THEN existing.text \o <<" ">> \o value
                       ELSE value)
    IN IF merged = <<>> THEN NoText ELSE TextOf(merged)

\* the layout after one extendLayout contribution
\* fault variant: the fragments of a contribution are put in front of the slot
MergeLayoutSlotsPrepended(current, contribution) ==
    [hideDefaultHeader |-> OrElse(contribution.hideDefaultHeader, current.hideDefaultHeader),
     hideDefaultFooter |-> OrElse(contribution.hideDefaultFooter, current.hideDefaultFooter),
     hideDefaultSidebar |-> OrElse(contribution.hideDefaultSidebar, current.hideDefaultSidebar),
     classNames |->
         [region \in ClassRegions |->
             IF region \in DOMAIN contribution.classNames
                /\ contribution.classNames[region] # <<>>
             THEN MergedClassName(current.classNames[region], contribution.classNames[region])
             ELSE current.classNames[region]],
     slots |->
         [region \in SlotRegions |->
             ToStringArray(contribution.slots[region]) \o current.slots[region]]]

\* fault variant: a hide flag that is true stays true whatever is supplied later
MergeLayoutSticky(current, contribution) ==
    [hideDefaultHeader |->
         current.hideDefaultHeader \/ OrElse(contribution.hideDefaultHeader, FALSE),
     hideDefaultFooter |->
         current.hideDefaultFooter \/ OrElse(contribution.hideDefaultFooter, FALSE),
     hideDefaultSidebar |->
         current.hideDefaultSidebar \/ OrElse(contribution.hideDefaultSidebar, FALSE),
     classNames |->
         [region \in ClassRegions |->
             IF region \in DOMAIN contribution.classNames
                /\ contribution.classNames[region] # <<>>
             THEN MergedClassName(current.classNames[region], contribution.classNames[region])
             ELSE current.classNames[region]],
     slots |->
         [region \in SlotRegions |->
             current.slots[region] \o ToStringArray(contribution.slots[region])]]

MergeLayout(current, contribution) ==
    [hideDefaultHeader |-> OrElse(contribution.hideDefaultHeader, current.hideDefaultHeader),
     hideDefaultFooter |-> OrElse(contribution.hideDefaultFooter, current.hideDefaultFooter),
     hideDefaultSidebar |-> OrElse(contribution.hideDefaultSidebar, current.hideDefaultSidebar),
     classNames |->
         [region \in ClassRegions |->
             IF region \in DOMAIN contribution.classNames
                /\ contribution.classNames[region] # <<>>
             THEN MergedClassName(current.classNames[region], contribution.classNames[region])
             ELSE current.classNames[region]],
     slots |->
         [region \in SlotRegions |->
             current.slots[region] \o ToStringArray(contribution.slots[region])]]

RECURSIVE AddPagesContentOnly(_, _, _)
\* fault variant: a synthesized path is not added to the taken paths
AddPagesContentOnly(pages, current, taken) ==
    IF pages = <<>>
    THEN [collided |-> FALSE, path |-> <<>>, routes |-> current, takenPaths |-> taken]
    ELSE LET path == NormalizeRoutePath(Head(pages).path)
         IN IF path \in taken
            THEN [collided |-> TRUE, path |-> path, routes |-> current, takenPaths |-> taken]
            ELSE AddPagesContentOnly(Tail(pages), Append(current, HtmlRoute(Head(pages), path)),
                                     taken)

RECURSIVE AddPages(_, _, _)
\* for (const page of extraPages ?? []): stops at the first taken path
AddPages(pages, current, taken) ==
    IF pages = <<>>
    THEN [collided |-> FALSE, path |-> <<>>, routes |-> current, takenPaths |-> taken]
    ELSE LET path == NormalizeRoutePath(Head(pages).path)
         IN IF path \in taken
            THEN [collided |-> TRUE, path |-> path, routes |-> current, takenPaths |-> taken]
            ELSE AddPages(Tail(pages), Append(current, HtmlRoute(Head(pages), path)),
                          taken \cup {path})

\* new Error(`Route path collision for "${path}".`)
CollisionError(path) == ErrorOf(<<Text("Route path collision for \""), path, Text("\".")>>)

RECURSIVE InsertRoute(_, _)
\* the place of a route among sorted ones: behind every route that does not compare greater
InsertRoute(sorted, route) ==
    IF sorted = <<>> THEN <<route>>
    ELSE IF LocaleCompare(Head(sorted).path, route.path) <= 0
    THEN <<Head(sorted)>> \o InsertRoute(Tail(sorted), route)
    ELSE <<route>> \o sorted

\* fault variant: the routes are returned in the order they were pushed
SortRoutesSkipped(unsorted) == unsorted

RECURSIVE SortRoutes(_)
\* routes.sort((left, right) => left.path.localeCompare(right.path)), a stable sort
SortRoutes(unsorted) ==
    IF unsorted = <<>> THEN <<>>
    ELSE InsertRoute(SortRoutes(DropLast(unsorted, 1)), unsorted[Len(unsorted)])

\* the locals of the loops
CurrentFile == scanFiles[fileIndex]
CurrentPlugin == hookPlugins[pluginIndex]
CurrentPath == ToRoutePath(CurrentFile)

\* one entry of the hook history
Invocation(hook, file, text, parsed, title, seen, outcome) ==
    [plugin |-> CurrentPlugin, hook |-> hook, file |-> file, source |-> text,
     frontmatter |-> parsed, title |-> title, routes |-> seen, outcome |-> outcome,
     renderer |-> prepRenderer]

\* throw formatPluginError(plugin.name, hook, error)
Rejected(hook, error) ==
    [thrown |-> TRUE, message |-> FormatPluginError(CurrentPlugin, hook, error)]

\* the content files a root may hold, with their text
FileTexts ==
    <<"a", ".", "m", "d", "x">> :> <<"#", " ", "A">>
    @@ <<"a", "/", "i", "n", "d", "e", "x", ".", "m", "d", "x">> :>
        (Dashes \o <<LF, "t", "y", "p", "e", ":", " ", "a", "d", "r", LF,
                     "s", "i", "d", "e", "b", "a", "r", ":", " ", "n", "u", "l", "l", LF>>
         \o Dashes \o <<LF>>)
    @@ <<"i", "n", "d", "e", "x", ".", "m", "d", "x">> :>
        (Dashes \o <<CR, LF, "t", "i", "t", "l", "e", ":", " ",
                     "\"", "W", "e", "l", "c", "o", "m", "e", "\"", CR, LF,
                     "s", "i", "d", "e", "b", "a", "r", ":", " ", "f", "a", "l", "s", "e", CR, LF>>
         \o Dashes \o <<CR, LF>>)
    @@ <<"a", "d", "r", "-", "t", "r", "e", "e", ".", "m", "d", "x">> :>
        (Dashes \o <<LF, "s", "i", "d", "e", "b", "a", "r", ":", " ", "0", LF,
                     "n", "a", "v", "L", "a", "b", "e", "l", ":", " ", "'", "N", "'", LF>>
         \o Dashes \o <<LF>>)
    @@ <<"B", ".", "m", "d", "x">> :>
        (Dashes \o <<LF, "t", "i", "t", "l", "e", ":", " ", "T", LF>>)

FileSystems ==
    {[file \in chosen |-> FileTexts[file]] :
        chosen \in {S \in SUBSET DOMAIN FileTexts : Cardinality(S) <= MaxFiles}}

HookPluginLists == UNION {[1..n -> HookPluginNames] : n \in 0..MaxHookPlugins}

InitPrepare ==
    /\ \E files \in FileSystems, plugins \in HookPluginLists : PrepAtStart(files, plugins)
    /\ RegistryAtStart(<<>>)
    /\ CmdIdle
    /\ RpIdle
    /\ CliIdle
    /\ CfgIdle
    /\ ValIdle
    /\ RendIdle

\* const scanResult = await scanMdxFiles(root); const mdxFiles = []; const routes = []
ScanMdxFiles ==
    /\ prepPc = "start"
    /\ scanFiles' = SortFiles(DOMAIN fileSystem)
    /\ mdxFiles' = <<>>
    /\ routes' = <<>>
    /\ fileIndex' = 1
    /\ prepPc' = "files"
    /\ UNCHANGED <<callVars, fileSystem, hookPlugins, pluginIndex, source, frontmatter,
                   mdxDecoration,
                   layout, takenPaths, pageCount, prepError, hookLog>>
    /\ UNCHANGED nonPrepVars

\* the head of the loop over scanResult.files: read the file, extract its frontmatter
ReadFile ==
    /\ prepPc = "files"
    /\ fileIndex <= Len(scanFiles)
    /\ source' = fileSystem[CurrentFile]
    /\ frontmatter' = ParseFrontmatter(fileSystem[CurrentFile])
    /\ pluginIndex' = 1
    /\ prepPc' = "transformMdx"
    /\ UNCHANGED <<callVars, fileSystem, hookPlugins, scanFiles, fileIndex, mdxDecoration, mdxFiles,
                   routes, layout, takenPaths, pageCount, prepError, hookLog>>
    /\ UNCHANGED nonPrepVars

\* fault variant: the frontmatter is not extracted again after a transform
TransformMdxStaleFrontmatter ==
    /\ prepPc = "transformMdx"
    /\ pluginIndex <= Len(hookPlugins)
    /\ IF "transformMdx" \notin Hooks(CurrentPlugin)
       THEN /\ pluginIndex' = pluginIndex + 1
            /\ UNCHANGED <<prepPc, source, frontmatter, prepError, hookLog>>
       ELSE LET outcome ==
                    TransformMdxHook(CurrentPlugin,
                                     [renderer |-> prepRenderer, file |-> CurrentFile,
                                      frontmatter |-> frontmatter,
                                      path |-> CurrentPath, source |-> source])
            IN /\ hookLog' = Append(hookLog, Invocation("transformMdx", CurrentFile, source,
                                                        frontmatter, <<>>, <<>>, outcome))
               /\ IF outcome.kind = "throw"
                  THEN /\ prepPc' = "failed"
                       /\ prepError' = Rejected("transformMdx", outcome.error)
                       /\ UNCHANGED <<pluginIndex, source, frontmatter>>
                  ELSE /\ source' = outcome.value
                       /\ pluginIndex' = pluginIndex + 1
                       /\ UNCHANGED <<prepPc, prepError, frontmatter>>
    /\ UNCHANGED <<callVars, fileSystem, hookPlugins, scanFiles, fileIndex, mdxDecoration, mdxFiles,
                   routes, layout, takenPaths, pageCount>>
    /\ UNCHANGED nonPrepVars

\* fault variant: one loop over the plugins runs a plugin's transformMdx hook and
\* then its mdxPage hook, ahead of the mdxPage loop
TransformMdxFused ==
    /\ prepPc = "transformMdx"
    /\ pluginIndex <= Len(hookPlugins)
    /\ IF "transformMdx" \notin Hooks(CurrentPlugin)
       THEN /\ pluginIndex' = pluginIndex + 1
            /\ UNCHANGED <<prepPc, source, frontmatter, prepError, hookLog>>
       ELSE LET outcome ==
                    TransformMdxHook(CurrentPlugin,
                                     [renderer |-> prepRenderer, file |-> CurrentFile,
                                      frontmatter |-> frontmatter,
                                      path |-> CurrentPath, source |-> source])
                transformed == Invocation("transformMdx", CurrentFile, source,
                                          frontmatter, <<>>, <<>>, outcome)
            IN IF outcome.kind = "throw"
               THEN /\ hookLog' = Append(hookLog, transformed)
                    /\ prepPc' = "failed"
                    /\ prepError' = Rejected("transformMdx", outcome.error)
                    /\ UNCHANGED <<pluginIndex, source, frontmatter>>
               ELSE LET parsed == ParseFrontmatter(outcome.value)
                        title == RouteTitle(parsed, CurrentPath)
                        decorated ==
                            MdxPageHook(CurrentPlugin,
                                        [renderer |-> prepRenderer, file |-> CurrentFile,
                                         frontmatter |-> parsed,
                                         path |-> CurrentPath, source |-> outcome.value,
                                         title |-> title])
                    IN /\ hookLog' =
                              IF "mdxPage" \in Hooks(CurrentPlugin)
                              THEN hookLog \o <<transformed,
                                                Invocation("mdxPage", CurrentFile,
                                                           outcome.value, parsed, title,
                                                           <<>>, decorated)>>
                              ELSE Append(hookLog, transformed)
                       /\ source' = outcome.value
                       /\ frontmatter' = parsed
                       /\ pluginIndex' = pluginIndex + 1
                       /\ UNCHANGED <<prepPc, prepError>>
    /\ UNCHANGED <<callVars, fileSystem, hookPlugins, scanFiles, fileIndex, mdxDecoration, mdxFiles,
                   routes, layout, takenPaths, pageCount>>
    /\ UNCHANGED nonPrepVars

\* one iteration of the transformMdx loop
TransformMdx ==
    /\ prepPc = "transformMdx"
    /\ pluginIndex <= Len(hookPlugins)
    /\ IF "transformMdx" \notin Hooks(CurrentPlugin)
       THEN /\ pluginIndex' = pluginIndex + 1
            /\ UNCHANGED <<prepPc, source, frontmatter, prepError, hookLog>>
       ELSE LET outcome ==
                    TransformMdxHook(CurrentPlugin,
                                     [renderer |-> prepRenderer, file |-> CurrentFile,
                                      frontmatter |-> frontmatter,
                                      path |-> CurrentPath, source |-> source])
            IN /\ hookLog' = Append(hookLog, Invocation("transformMdx", CurrentFile, source,
                                                        frontmatter, <<>>, <<>>, outcome))
               /\ IF outcome.kind = "throw"
                  THEN /\ prepPc' = "failed"
                       /\ prepError' = Rejected("transformMdx", outcome.error)
                       /\ UNCHANGED <<pluginIndex, source, frontmatter>>
                  ELSE /\ source' = outcome.value
                       /\ frontmatter' = ParseFrontmatter(outcome.value)
                       /\ pluginIndex' = pluginIndex + 1
                       /\ UNCHANGED <<prepPc, prepError>>
    /\ UNCHANGED <<callVars, fileSystem, hookPlugins, scanFiles, fileIndex, mdxDecoration, mdxFiles,
                   routes, layout, takenPaths, pageCount>>
    /\ UNCHANGED nonPrepVars

\* between the two loops of a file: const mdxDecoration = { ... }
CreateDecoration ==
    /\ prepPc = "transformMdx"
    /\ pluginIndex > Len(hookPlugins)
    /\ mdxDecoration' = EmptyDecoration
    /\ pluginIndex' = 1
    /\ prepPc' = "mdxPage"
    /\ UNCHANGED <<callVars, fileSystem, hookPlugins, scanFiles, fileIndex, source, frontmatter,
                   mdxFiles, routes, layout, takenPaths, pageCount, prepError, hookLog>>
    /\ UNCHANGED nonPrepVars

\* fault variant: the hook is handed the frontmatter of the file as it was read
MdxPageStaleFrontmatter ==
    /\ prepPc = "mdxPage"
    /\ pluginIndex <= Len(hookPlugins)
    /\ IF "mdxPage" \notin Hooks(CurrentPlugin)
       THEN /\ pluginIndex' = pluginIndex + 1
            /\ UNCHANGED <<prepPc, mdxDecoration, prepError, hookLog>>
       ELSE LET outcome ==
                    MdxPageHook(CurrentPlugin,
                                [renderer |-> prepRenderer, file |-> CurrentFile,
                                 frontmatter |-> ParseFrontmatter(fileSystem[CurrentFile]),
                                 path |-> CurrentPath, source |-> source,
                                 title |-> RouteTitle(ParseFrontmatter(fileSystem[CurrentFile]),
                                                      CurrentPath)])
            IN /\ hookLog' = Append(hookLog, Invocation("mdxPage", CurrentFile, source,
                                                        ParseFrontmatter(fileSystem[CurrentFile]),
                                                        RouteTitle(ParseFrontmatter(fileSystem[CurrentFile]),
                                                                   CurrentPath),
                                                        <<>>, outcome))
               /\ IF outcome.kind = "throw"
                  THEN /\ prepPc' = "failed"
                       /\ prepError' = Rejected("mdxPage", outcome.error)
                       /\ UNCHANGED <<pluginIndex, mdxDecoration>>
                  ELSE /\ mdxDecoration' =
                              IF outcome.value.void THEN mdxDecoration
                              ELSE Decorate(mdxDecoration, outcome.value)
                       /\ pluginIndex' = pluginIndex + 1
                       /\ UNCHANGED <<prepPc, prepError>>
    /\ UNCHANGED <<callVars, fileSystem, hookPlugins, scanFiles, fileIndex, source, frontmatter,
                   mdxFiles, routes, layout, takenPaths, pageCount>>
    /\ UNCHANGED nonPrepVars

\* one iteration of the mdxPage loop
MdxPage ==
    /\ prepPc = "mdxPage"
    /\ pluginIndex <= Len(hookPlugins)
    /\ IF "mdxPage" \notin Hooks(CurrentPlugin)
       THEN /\ pluginIndex' = pluginIndex + 1
            /\ UNCHANGED <<prepPc, mdxDecoration, prepError, hookLog>>
       ELSE LET outcome ==
                    MdxPageHook(CurrentPlugin,
                                [renderer |-> prepRenderer, file |-> CurrentFile,
                                 frontmatter |-> frontmatter,
                                 path |-> CurrentPath, source |-> source,
                                 title |-> RouteTitle(frontmatter, CurrentPath)])
            IN /\ hookLog' = Append(hookLog, Invocation("mdxPage", CurrentFile, source,
                                                        frontmatter,
                                                        RouteTitle(frontmatter, CurrentPath),
                                                        <<>>, outcome))
               /\ IF outcome.kind = "throw"
                  THEN /\ prepPc' = "failed"
                       /\ prepError' = Rejected("mdxPage", outcome.error)
                       /\ UNCHANGED <<pluginIndex, mdxDecoration>>
                  ELSE /\ mdxDecoration' =
                              IF outcome.value.void THEN mdxDecoration
                              ELSE Decorate(mdxDecoration, outcome.value)
                       /\ pluginIndex' = pluginIndex + 1
                       /\ UNCHANGED <<prepPc, prepError>>
    /\ UNCHANGED <<callVars, fileSystem, hookPlugins, scanFiles, fileIndex, source, frontmatter,
                   mdxFiles, routes, layout, takenPaths, pageCount>>
    /\ UNCHANGED nonPrepVars

\* fault variant: the file and its source are put in front of mdxFiles
PushRouteUnshiftsFile ==
    /\ prepPc = "mdxPage"
    /\ pluginIndex > Len(hookPlugins)
    /\ mdxFiles' = <<[file |-> CurrentFile, source |-> source]>> \o mdxFiles
    /\ routes' = Append(routes, MdxRoute(CurrentFile, frontmatter, CurrentPath, mdxDecoration))
    /\ fileIndex' = fileIndex + 1
    /\ prepPc' = "files"
    /\ UNCHANGED <<callVars, fileSystem, hookPlugins, scanFiles, pluginIndex, source,
                   frontmatter, mdxDecoration, layout, takenPaths, pageCount, prepError,
                   hookLog>>
    /\ UNCHANGED nonPrepVars

\* the tail of the loop over scanResult.files: mdxFiles.push, routes.push
PushRoute ==
    /\ prepPc = "mdxPage"
    /\ pluginIndex > Len(hookPlugins)
    /\ mdxFiles' = Append(mdxFiles, [file |-> CurrentFile, source |-> source])
    /\ routes' = Append(routes, MdxRoute(CurrentFile, frontmatter, CurrentPath, mdxDecoration))
    /\ fileIndex' = fileIndex + 1
    /\ prepPc' = "files"
    /\ UNCHANGED <<callVars, fileSystem, hookPlugins, scanFiles, pluginIndex, source,
                   frontmatter, mdxDecoration, layout, takenPaths, pageCount, prepError,
                   hookLog>>
    /\ UNCHANGED nonPrepVars

\* fault variant: without content routes the extendLayout loop is passed over
CreateLayoutSkipsWithoutRoutes ==
    /\ prepPc = "files"
    /\ fileIndex > Len(scanFiles)
    /\ layout' = DefaultLayout
    /\ pluginIndex' = IF routes = <<>> THEN Len(hookPlugins) + 1 ELSE 1
    /\ prepPc' = "extendLayout"
    /\ UNCHANGED <<callVars, fileSystem, hookPlugins, scanFiles, fileIndex, source, frontmatter,
                   mdxDecoration, mdxFiles, routes, takenPaths, pageCount, prepError, hookLog>>
    /\ UNCHANGED nonPrepVars

\* after the last file: const layout = { ... }
CreateLayout ==
    /\ prepPc = "files"
    /\ fileIndex > Len(scanFiles)
    /\ layout' = DefaultLayout
    /\ pluginIndex' = 1
    /\ prepPc' = "extendLayout"
    /\ UNCHANGED <<callVars, fileSystem, hookPlugins, scanFiles, fileIndex, source, frontmatter,
                   mdxDecoration, mdxFiles, routes, takenPaths, pageCount, prepError, hookLog>>
    /\ UNCHANGED nonPrepVars

\* one iteration of the extendLayout loop
ExtendLayout ==
    /\ prepPc = "extendLayout"
    /\ pluginIndex <= Len(hookPlugins)
    /\ IF "extendLayout" \notin Hooks(CurrentPlugin)
       THEN /\ pluginIndex' = pluginIndex + 1
            /\ UNCHANGED <<prepPc, layout, prepError, hookLog>>
       ELSE LET outcome == ExtendLayoutHook(CurrentPlugin,
                                            [renderer |-> prepRenderer, routes |-> routes])
            IN /\ hookLog' = Append(hookLog, Invocation("extendLayout", NoFile, <<>>,
                                                        EmptyFrontmatter, <<>>, routes,
                                                        outcome))
               /\ IF outcome.kind = "throw"
                  THEN /\ prepPc' = "failed"
                       /\ prepError' = Rejected("extendLayout", outcome.error)
                       /\ UNCHANGED <<pluginIndex, layout>>
                  ELSE /\ layout' =
                              IF outcome.value.void THEN layout
                              ELSE MergeLayout(layout, outcome.value)
                       /\ pluginIndex' = pluginIndex + 1
                       /\ UNCHANGED <<prepPc, prepError>>
    /\ UNCHANGED <<callVars, fileSystem, hookPlugins, scanFiles, fileIndex, source, frontmatter,
                   mdxDecoration, mdxFiles, routes, takenPaths, pageCount>>
    /\ UNCHANGED nonPrepVars

\* const takenPaths = new Set(routes.map((route) => route.path))
TakePaths ==
    /\ prepPc = "extendLayout"
    /\ pluginIndex > Len(hookPlugins)
    /\ takenPaths' = {routes[i].path : i \in 1..Len(routes)}
    /\ pluginIndex' = 1
    /\ prepPc' = "extendPages"
    /\ UNCHANGED <<callVars, fileSystem, hookPlugins, scanFiles, fileIndex, source, frontmatter,
                   mdxDecoration, mdxFiles, routes, layout, pageCount, prepError, hookLog>>
    /\ UNCHANGED nonPrepVars

\* fault variant: the hook is handed the content routes only
ExtendPagesSeesContentOnly ==
    /\ prepPc = "extendPages"
    /\ pluginIndex <= Len(hookPlugins)
    /\ IF "extendPages" \notin Hooks(CurrentPlugin)
       THEN /\ pluginIndex' = pluginIndex + 1
            /\ UNCHANGED <<prepPc, routes, takenPaths, prepError, hookLog>>
       ELSE LET outcome == ExtendPagesHook(CurrentPlugin,
                                           [renderer |-> prepRenderer,
                                            routes |-> SubSeq(routes, 1, Len(mdxFiles))])
            IN /\ hookLog' = Append(hookLog, Invocation("extendPages", NoFile, <<>>,
                                                        EmptyFrontmatter, <<>>,
                                                        SubSeq(routes, 1, Len(mdxFiles)),
                                                        outcome))
               /\ IF outcome.kind = "throw"
                  THEN /\ prepPc' = "failed"
                       /\ prepError' = Rejected("extendPages", outcome.error)
                       /\ UNCHANGED <<pluginIndex, routes, takenPaths>>
                  ELSE LET added == AddPages(outcome.value, routes, takenPaths)
                       IN /\ routes' = added.routes
                          /\ takenPaths' = added.takenPaths
                          /\ IF added.collided
                             THEN /\ prepPc' = "failed"
                                  /\ prepError' = Rejected("extendPages",
                                                           CollisionError(added.path))
                                  /\ UNCHANGED pluginIndex
                             ELSE /\ pluginIndex' = pluginIndex + 1
                                  /\ UNCHANGED <<prepPc, prepError>>
    /\ UNCHANGED <<callVars, fileSystem, hookPlugins, scanFiles, fileIndex, source,
                   frontmatter, mdxDecoration, mdxFiles, layout, pageCount>>
    /\ UNCHANGED nonPrepVars

\* one iteration of the extendPages loop
ExtendPages ==
    /\ prepPc = "extendPages"
    /\ pluginIndex <= Len(hookPlugins)
    /\ IF "extendPages" \notin Hooks(CurrentPlugin)
       THEN /\ pluginIndex' = pluginIndex + 1
            /\ UNCHANGED <<prepPc, routes, takenPaths, prepError, hookLog>>
       ELSE LET outcome == ExtendPagesHook(CurrentPlugin,
                                           [renderer |-> prepRenderer, routes |-> routes])
            IN /\ hookLog' = Append(hookLog, Invocation("extendPages", NoFile, <<>>,
                                                        EmptyFrontmatter, <<>>, routes,
                                                        outcome))
               /\ IF outcome.kind = "throw"
                  THEN /\ prepPc' = "failed"
                       /\ prepError' = Rejected("extendPages", outcome.error)
                       /\ UNCHANGED <<pluginIndex, routes, takenPaths>>
                  ELSE LET added == AddPages(outcome.value, routes, takenPaths)
                       IN /\ routes' = added.routes
                          /\ takenPaths' = added.takenPaths
                          /\ IF added.collided
                             THEN /\ prepPc' = "failed"
                                  /\ prepError' = Rejected("extendPages",
                                                           CollisionError(added.path))
                                  /\ UNCHANGED pluginIndex
                             ELSE /\ pluginIndex' = pluginIndex + 1
                                  /\ UNCHANGED <<prepPc, prepError>>
    /\ UNCHANGED <<callVars, fileSystem, hookPlugins, scanFiles, fileIndex, source,
                   frontmatter, mdxDecoration, mdxFiles, layout, pageCount>>
    /\ UNCHANGED nonPrepVars

\* fault variant: the routes are sorted for one renderer only
SortAndReturnForViteReact ==
    /\ prepPc = "extendPages"
    /\ pluginIndex > Len(hookPlugins)
    /\ routes' = IF prepRenderer = "vite-react" THEN SortRoutes(routes) ELSE routes
    /\ pageCount' = Len(routes)
    /\ prepPc' = "returned"
    /\ UNCHANGED <<callVars, fileSystem, hookPlugins, scanFiles, fileIndex, pluginIndex, source,
                   frontmatter, mdxDecoration, mdxFiles, layout, takenPaths, prepError,
                   hookLog>>
    /\ UNCHANGED nonPrepVars

\* routes.sort(...); return { root, config, layout, routes, mdxFiles, pageCount }
SortAndReturn ==
    /\ prepPc = "extendPages"
    /\ pluginIndex > Len(hookPlugins)
    /\ routes' = SortRoutes(routes)
    /\ pageCount' = Len(routes)
    /\ prepPc' = "returned"
    /\ UNCHANGED <<callVars, fileSystem, hookPlugins, scanFiles, fileIndex, pluginIndex, source,
                   frontmatter, mdxDecoration, mdxFiles, layout, takenPaths, prepError,
                   hookLog>>
    /\ UNCHANGED nonPrepVars

NextPrepare ==
    \/ ScanMdxFiles
    \/ ReadFile
    \/ TransformMdx
    \/ CreateDecoration
    \/ MdxPage
    \/ PushRoute
    \/ CreateLayout
    \/ ExtendLayout
    \/ TakePaths
    \/ ExtendPages
    \/ SortAndReturn

SpecPrepare == InitPrepare /\ [][NextPrepare]_vars

\* the renderer ids prepareLoomSite is called with
RendererIds == {"vite-react", "astro"}

\* how the call of prepareLoomSite ended
PreparedSite ==
    [ended |-> TRUE, renderer |-> prepRenderer, pc |-> prepPc, routes |-> routes,
     layout |-> layout, mdxFiles |-> mdxFiles, pageCount |-> pageCount, error |-> prepError]

InitRendererRuns ==
    /\ \E files \in FileSystems, plugins \in HookPluginLists, rendererId \in RendererIds :
          /\ Len(plugins) <= 1
          /\ PrepAtStartWith(files, plugins, rendererId)
    /\ RegistryAtStart(<<>>)
    /\ CmdIdle
    /\ RpIdle
    /\ CliIdle
    /\ CfgIdle
    /\ ValIdle
    /\ RendIdle

\* prepareLoomSite is called once more on the same files and configuration with
\* another renderer id
PrepareAgain ==
    /\ prepPc \in {"returned", "failed"}
    /\ ~prepPrevious.ended
    /\ prepPrevious' = PreparedSite
    /\ prepRenderer' \in RendererIds \ {prepRenderer}
    /\ prepPc' = "start"
    /\ scanFiles' = <<>>
    /\ fileIndex' = 1
    /\ pluginIndex' = 1
    /\ source' = <<>>
    /\ frontmatter' = EmptyFrontmatter
    /\ mdxDecoration' = EmptyDecoration
    /\ mdxFiles' = <<>>
    /\ routes' = <<>>
    /\ layout' = DefaultLayout
    /\ takenPaths' = {}
    /\ pageCount' = 0
    /\ prepError' = NoError
    /\ hookLog' = <<>>
    /\ UNCHANGED <<fileSystem, hookPlugins>>
    /\ UNCHANGED nonPrepVars

NextRendererRuns ==
    \/ NextPrepare
    \/ PrepareAgain

SpecRendererRuns == InitRendererRuns /\ [][NextRendererRuns]_vars

-----------------------------------------------------------------------------
(* The loom CLI: the actions of the build and dev commands *)

\* one error of validateMdxFiles' result
ValidationError(file) ==
    [file |-> file, ruleId |-> "mdx/parse-error", message |-> "Could not parse MDX."]

\* the results validateMdxFiles may report
ValidationResults ==
    UNION {[1..n -> {ValidationError("broken.mdx"), ValidationError("guide/bad.mdx")}] :
              n \in 0..MaxErrors}

\* `${location} [${error.ruleId}] ${error.message}` for an error without a position
ErrorLine(error) == <<error.file, " [", error.ruleId, "] ", error.message>>

\* `Build failed: ${errorCount} validation error${errorCount === 1 ? '' : 's'}.`
BuildFailedLine(errorCount) ==
    <<"Build failed: ", Digits[errorCount + 1], " validation error",
      IF errorCount = 1 THEN "" ELSE "s", ".">>

NoRendererLine ==
    <<"No renderer configured.",
      " Add a renderer plugin as the first entry in plugins[] or run \"loom init\".">>

\* `Invalid port: ${options.port}`
InvalidPortLine == <<"Invalid port: ", "options.port">>

\* `Built ${buildResult.pageCount} page(s) to ${buildResult.outDir} in ...ms.`
BuiltLine == <<"Built ", "buildResult.pageCount", " page(s) to ", "buildResult.outDir">>

\* `Serving ${server.pageCount} page(s) at ${server.url}`
ServingLine == <<"Serving ", "server.pageCount", " page(s) at ", "server.url">>

\* one entry of the call history
Call(name) == [call |-> name, renderer |-> renderer]

\* the command lines the model starts loom with
CliInvocations ==
    {[command |-> "build", port |-> NotANumber, errors |-> errors] :
        errors \in ValidationResults}
    \cup {[command |-> "dev", port |-> port, errors |-> <<>>] :
             port \in {NotANumber, Port(0), Port(4173)}}

InitCli ==
    /\ \E plugins \in PluginLists : RegistryAtStart(plugins)
    /\ \E invocation \in CliInvocations :
          CliAtStart(invocation.command, invocation.port, invocation.errors)
    /\ CmdIdle
    /\ RpIdle
    /\ PrepIdle
    /\ CfgIdle
    /\ ValIdle
    /\ RendIdle

\* build: const targetPath = ...; const outPath = ...; createRuntime is called next
BuildStart ==
    /\ cliCommand = "build"
    /\ cliPc = "start"
    /\ cliPc' = "createRuntime"
    /\ UNCHANGED <<cliCommand, cliPort, validation, cliOutput, exitCode, cliLog>>
    /\ UNCHANGED <<regVars, nonCliVars>>

\* dev: the port is checked before createRuntime is called
DevStart ==
    /\ cliCommand = "dev"
    /\ cliPc = "start"
    /\ IF cliPort.nan \/ cliPort.value <= 0
       THEN /\ cliOutput' = Append(cliOutput, InvalidPortLine)
            /\ exitCode' = 1
            /\ cliPc' = "done"
       ELSE /\ cliPc' = "createRuntime"
            /\ UNCHANGED <<cliOutput, exitCode>>
    /\ UNCHANGED <<cliCommand, cliPort, validation, cliLog>>
    /\ UNCHANGED <<regVars, nonCliVars>>

\* await createRuntime(targetPath): createLoom, the loop of loom.use, the return
CliCreateRuntime ==
    /\ cliPc = "createRuntime"
    /\ \/ CreateRuntime
       \/ Use
       \/ CreateRuntimeReturn

\* createRuntime rejected: nothing catches it, the process ends with code 1
CliCreateRuntimeRejected ==
    /\ cliPc = "createRuntime"
    /\ regPc = "failed"
    /\ exitCode' = 1
    /\ cliPc' = "crashed"
    /\ UNCHANGED <<cliCommand, cliPort, validation, cliOutput, cliLog>>
    /\ UNCHANGED <<regVars, nonCliVars>>

\* fault variant: the return after the report of the validation errors is missing
BuildValidateWithoutReturn ==
    /\ cliCommand = "build"
    /\ cliPc = "createRuntime"
    /\ regPc = "registered"
    /\ cliLog' = Append(cliLog, Call("validateMdxFiles"))
    /\ IF Len(validation) > 0
       THEN /\ cliOutput' = cliOutput
                            \o [k \in 1..Len(validation) |-> ErrorLine(validation[k])]
                            \o <<BuildFailedLine(Len(validation))>>
            /\ exitCode' = 1
            /\ cliPc' = "validated"
       ELSE /\ cliPc' = "validated"
            /\ UNCHANGED <<cliOutput, exitCode>>
    /\ UNCHANGED <<cliCommand, cliPort, validation>>
    /\ UNCHANGED <<regVars, nonCliVars>>

\* build: const validation = await validateMdxFiles(targetPath) and the check of
\* validation.errorCount
BuildValidate ==
    /\ cliCommand = "build"
    /\ cliPc = "createRuntime"
    /\ regPc = "registered"
    /\ cliLog' = Append(cliLog, Call("validateMdxFiles"))
    /\ IF Len(validation) > 0
       THEN /\ cliOutput' = cliOutput
                            \o [k \in 1..Len(validation) |-> ErrorLine(validation[k])]
                            \o <<BuildFailedLine(Len(validation))>>
            /\ exitCode' = 1
            /\ cliPc' = "done"
       ELSE /\ cliPc' = "validated"
            /\ UNCHANGED <<cliOutput, exitCode>>
    /\ UNCHANGED <<cliCommand, cliPort, validation>>
    /\ UNCHANGED <<regVars, nonCliVars>>

\* build: the check of the renderer and await renderer.build(...), which returns
\* or rejects
BuildRender ==
    /\ cliCommand = "build"
    /\ cliPc = "validated"
    /\ IF renderer = Undefined
       THEN /\ cliOutput' = Append(cliOutput, NoRendererLine)
            /\ exitCode' = 1
            /\ cliPc' = "done"
            /\ UNCHANGED cliLog
       ELSE /\ cliLog' = Append(cliLog, Call("renderer.build"))
            /\ \/ /\ cliOutput' = Append(cliOutput, BuiltLine)
                  /\ cliPc' = "done"
                  /\ UNCHANGED exitCode
               \/ /\ exitCode' = 1
                  /\ cliPc' = "crashed"
                  /\ UNCHANGED cliOutput
    /\ UNCHANGED <<cliCommand, cliPort, validation>>
    /\ UNCHANGED <<regVars, nonCliVars>>

\* dev: the check of the renderer and await renderer.dev(...), which returns the
\* server or rejects
DevRender ==
    /\ cliCommand = "dev"
    /\ cliPc = "createRuntime"
    /\ regPc = "registered"
    /\ IF renderer = Undefined
       THEN /\ cliOutput' = Append(cliOutput, NoRendererLine)
            /\ exitCode' = 1
            /\ cliPc' = "done"
            /\ UNCHANGED cliLog
       ELSE /\ cliLog' = Append(cliLog, Call("renderer.dev"))
            /\ \/ /\ cliOutput' = Append(cliOutput, ServingLine)
                  /\ cliPc' = "serving"
                  /\ UNCHANGED exitCode
               \/ /\ exitCode' = 1
                  /\ cliPc' = "crashed"
                  /\ UNCHANGED cliOutput
    /\ UNCHANGED <<cliCommand, cliPort, validation>>
    /\ UNCHANGED <<regVars, nonCliVars>>

NextCli ==
    \/ BuildStart
    \/ DevStart
    \/ CliCreateRuntime
    \/ CliCreateRuntimeRejected
    \/ BuildValidate
    \/ BuildRender
    \/ DevRender

SpecCli == InitCli /\ [][NextCli]_vars

-----------------------------------------------------------------------------
(* Configuration resolution: normalizeConfig and loadLoomConfig *)

\* an optional property of a declaration: whether the key is there, and its value
Missing == [given |-> FALSE, value |-> Undefined]
Given(value) == [given |-> TRUE, value |-> value]

\* one entry of rawConfig.plugins: a falsy entry (null, undefined, false), or an
\* object with its name and its hooks and setup properties
FalsyEntry == [falsy |-> TRUE, name |-> Undefined, hooks |-> Missing, setup |-> Missing]
Declaration(name, hooks, setup) ==
    [falsy |-> FALSE, name |-> name, hooks |-> hooks, setup |-> setup]

\* the entries the model declares
Declarations ==
    {FalsyEntry,
     Declaration(Str("nav"), Given(Obj("nav hooks")), Missing),
     Declaration(Str("nav"), Given(Obj("other hooks")), Given(Fn("other setup"))),
     Declaration(Str("react"), Missing, Given(Fn("react setup"))),
     Declaration(Str("both"), Given(Obj("both hooks")), Given(Fn("both setup"))),
     Declaration(Str(""), Given(Obj("hooks")), Missing),
     Declaration(Undefined, Missing, Given(Fn("setup"))),
     Declaration(Obj("name"), Given(Obj("hooks")), Missing),
     Declaration(Str("bare"), Missing, Missing),
     Declaration(Str("odd"), Missing, Given(Str("setup"))),
     Declaration(Str("void"), Given(Undefined), Missing)}

\* the declared plugin lists of the model
DeclaredLists == UNION {[1..n -> Declarations] : n \in 0..MaxDeclared}

\* what a resolution of the declared list ended with
Resolution ==
    [ended |-> TRUE, pc |-> cfgPc, plugins |-> cfgPlugins,
     runtimePlugins |-> cfgRuntimePlugins, error |-> cfgError]

InvalidPluginName == Text("Invalid Loom plugin: every plugin must define a non-empty name.")

InitConfig ==
    /\ \E declared \in DeclaredLists : ConfigAtStart(declared)
    /\ RegistryAtStart(<<>>)
    /\ CmdIdle
    /\ RpIdle
    /\ PrepIdle
    /\ CliIdle
    /\ ValIdle
    /\ RendIdle

\* fault variant: the plugin is put in front of the lists
NormalizePluginUnshift ==
    /\ cfgPc = "normalizing"
    /\ cfgIndex <= Len(rawPlugins)
    /\ LET plugin == rawPlugins[cfgIndex]
       IN IF plugin.falsy
          THEN /\ cfgIndex' = cfgIndex + 1
               /\ UNCHANGED <<cfgPc, cfgPlugins, cfgRuntimePlugins, cfgError>>
          ELSE IF ~Truthy(plugin.name) \/ plugin.name.t # "string"
          THEN /\ cfgPc' = "failed"
               /\ cfgError' = InvalidPluginName
               /\ UNCHANGED <<cfgIndex, cfgPlugins, cfgRuntimePlugins>>
          ELSE /\ cfgPlugins' =
                    IF plugin.hooks.given
                    THEN <<[name |-> plugin.name, hooks |-> plugin.hooks.value]>>
                         \o cfgPlugins
                    ELSE cfgPlugins
               /\ cfgRuntimePlugins' =
                    IF plugin.setup.given /\ plugin.setup.value.t = "function"
                    THEN <<plugin>> \o cfgRuntimePlugins
                    ELSE cfgRuntimePlugins
               /\ cfgIndex' = cfgIndex + 1
               /\ UNCHANGED <<cfgPc, cfgError>>
    /\ UNCHANGED <<rawPlugins, cfgPrevious>>
    /\ UNCHANGED nonCfgVars

\* one iteration of for (const plugin of rawConfig.plugins ?? [])
NormalizePlugin ==
    /\ cfgPc = "normalizing"
    /\ cfgIndex <= Len(rawPlugins)
    /\ LET plugin == rawPlugins[cfgIndex]
       IN IF plugin.falsy
          THEN /\ cfgIndex' = cfgIndex + 1
               /\ UNCHANGED <<cfgPc, cfgPlugins, cfgRuntimePlugins, cfgError>>
          ELSE IF ~Truthy(plugin.name) \/ plugin.name.t # "string"
          THEN /\ cfgPc' = "failed"
               /\ cfgError' = InvalidPluginName
               /\ UNCHANGED <<cfgIndex, cfgPlugins, cfgRuntimePlugins>>
          ELSE /\ cfgPlugins' =
                    IF plugin.hooks.given
                    THEN Append(cfgPlugins,
                                [name |-> plugin.name, hooks |-> plugin.hooks.value])
                    ELSE cfgPlugins
               /\ cfgRuntimePlugins' =
                    IF plugin.setup.given /\ plugin.setup.value.t = "function"
                    THEN Append(cfgRuntimePlugins, plugin)
                    ELSE cfgRuntimePlugins
               /\ cfgIndex' = cfgIndex + 1
               /\ UNCHANGED <<cfgPc, cfgError>>
    /\ UNCHANGED <<rawPlugins, cfgPrevious>>
    /\ UNCHANGED nonCfgVars

\* the loop is over: return { root, configPath, plugins, runtimePlugins, site }
NormalizeConfigReturn ==
    /\ cfgPc = "normalizing"
    /\ cfgIndex > Len(rawPlugins)
    /\ cfgPc' = "resolved"
    /\ UNCHANGED <<rawPlugins, cfgIndex, cfgPlugins, cfgRuntimePlugins, cfgError,
                   cfgPrevious>>
    /\ UNCHANGED nonCfgVars

\* loadLoomConfig is called once more for the same configuration file
LoadLoomConfigAgain ==
    /\ cfgPc \in {"resolved", "failed"}
    /\ ~cfgPrevious.ended
    /\ cfgPrevious' = Resolution
    /\ cfgIndex' = 1
    /\ cfgPc' = "normalizing"
    /\ cfgPlugins' = <<>>
    /\ cfgRuntimePlugins' = <<>>
    /\ cfgError' = <<>>
    /\ UNCHANGED rawPlugins
    /\ UNCHANGED nonCfgVars

NextConfig ==
    \/ NormalizePlugin
    \/ NormalizeConfigReturn
    \/ LoadLoomConfigAgain

SpecConfig == InitConfig /\ [][NextConfig]_vars

-----------------------------------------------------------------------------
(* loom validate: validateMdxFiles and the action of the validate command *)

\* the .mdx files a validated path may hold, ascending by UTF-16 code units
ValidatedFileNames == <<"a.mdx", "broken.mdx", "guide/bad.mdx", "index.mdx">>

\* the position of a file in ValidatedFileNames
CodeUnitRank(file) == CHOOSE i \in 1..Len(ValidatedFileNames) : ValidatedFileNames[i] = file

RECURSIVE SortNames(_)
\* files.sort() for a list of distinct names of ValidatedFileNames
SortNames(names) ==
    IF names = <<>> THEN <<>>
    ELSE LET least == CHOOSE i \in 1..Len(names) :
                          \A j \in 1..Len(names) :
                              CodeUnitRank(names[i]) <= CodeUnitRank(names[j])
         IN <<names[least]>>
            \o SortNames(SubSeq(names, 1, least - 1) \o SubSeq(names, least + 1, Len(names)))

\* the orders in which walkMdxFiles may meet the files of a path
ValidatedTrees ==
    {tree \in UNION {[1..n -> {ValidatedFileNames[i] : i \in 1..Len(ValidatedFileNames)}] :
                        n \in 0..MaxValidated} :
        \A j, k \in 1..Len(tree) : j # k => tree[j] # tree[k]}

\* `Validated ${filesChecked} MDX file${filesChecked === 1 ? '' : 's'} with no errors.`
ValidatedLine(filesChecked) ==
    <<"Validated ", Digits[filesChecked + 1], " MDX file",
      IF filesChecked = 1 THEN "" ELSE "s", " with no errors.">>

\* `Validation failed: ${errorCount} error(s) in ${filesChecked} file(s).`
ValidationFailedLine(errorCount, filesChecked) ==
    <<"Validation failed: ", Digits[errorCount + 1], " error",
      IF errorCount = 1 THEN "" ELSE "s", " in ", Digits[filesChecked + 1], " file",
      IF filesChecked = 1 THEN "" ELSE "s", ".">>

InitValidate ==
    /\ \E tree \in ValidatedTrees :
          \E broken \in SUBSET {tree[i] : i \in 1..Len(tree)} :
              ValidateAt(tree, broken, "start")
    /\ CliAtStart("validate", NotANumber, <<>>)
    /\ RegistryAtStart(<<>>)
    /\ CmdIdle
    /\ RpIdle
    /\ PrepIdle
    /\ CfgIdle
    /\ RendIdle

\* const scanResult = await scanMdxFiles(inputPath); const errors = []
ValidateScan ==
    /\ valPc = "start"
    /\ valFiles' = SortNames(valTree)
    /\ valErrors' = <<>>
    /\ valIndex' = 1
    /\ valPc' = "files"
    /\ UNCHANGED <<valTree, brokenFiles, valResult, compiled>>
    /\ UNCHANGED <<cliVars, nonValVars>>

\* fault variant: the loop ends at the first file that does not compile
ValidateFileStopsAtError ==
    /\ valPc = "files"
    /\ valIndex <= Len(valFiles)
    /\ LET file == valFiles[valIndex]
       IN /\ compiled' = Append(compiled, file)
          /\ IF file \in brokenFiles
             THEN /\ valErrors' = Append(valErrors, ValidationError(file))
                  /\ valIndex' = Len(valFiles) + 1
             ELSE /\ valIndex' = valIndex + 1
                  /\ UNCHANGED valErrors
    /\ UNCHANGED <<valTree, brokenFiles, valFiles, valPc, valResult>>
    /\ UNCHANGED <<cliVars, nonValVars>>

\* one iteration of for (const file of scanResult.files): read, compile, and
\* push one error when compile throws
ValidateFile ==
    /\ valPc = "files"
    /\ valIndex <= Len(valFiles)
    /\ LET file == valFiles[valIndex]
       IN /\ compiled' = Append(compiled, file)
          /\ valErrors' = IF file \in brokenFiles
                          THEN Append(valErrors, ValidationError(file))
                          ELSE valErrors
    /\ valIndex' = valIndex + 1
    /\ UNCHANGED <<valTree, brokenFiles, valFiles, valPc, valResult>>
    /\ UNCHANGED <<cliVars, nonValVars>>

\* return { root, filesChecked: scanResult.count, errors, errorCount: errors.length }
ValidateReturn ==
    /\ valPc = "files"
    /\ valIndex > Len(valFiles)
    /\ valResult' = [returned |-> TRUE, filesChecked |-> Len(valFiles),
                     errors |-> valErrors, errorCount |-> Len(valErrors)]
    /\ valPc' = "returned"
    /\ UNCHANGED <<valTree, brokenFiles, valFiles, valIndex, valErrors, compiled>>
    /\ UNCHANGED <<cliVars, nonValVars>>

\* the validate action after await validateMdxFiles(targetPath)
ValidateReport ==
    /\ cliCommand = "validate"
    /\ cliPc = "start"
    /\ valPc = "returned"
    /\ IF valResult.errorCount = 0
       THEN /\ cliOutput' = Append(cliOutput, ValidatedLine(valResult.filesChecked))
            /\ UNCHANGED exitCode
       ELSE /\ cliOutput' = cliOutput
                            \o [k \in 1..Len(valResult.errors) |->
                                   ErrorLine(valResult.errors[k])]
                            \o <<ValidationFailedLine(valResult.errorCount,
                                                      valResult.filesChecked)>>
            /\ exitCode' = 1
    /\ cliPc' = "done"
    /\ validation' = valResult.errors
    /\ UNCHANGED <<cliCommand, cliPort, cliLog>>
    /\ UNCHANGED <<valVars, nonValVars>>

NextValidate ==
    \/ ValidateScan
    \/ ValidateFile
    \/ ValidateReturn
    \/ ValidateReport

SpecValidate == InitValidate /\ [][NextValidate]_vars

-----------------------------------------------------------------------------
(* The renderers: createRendererContext, build and dev of one renderer package *)

\* the invocations that overlap: each a build or a dev of the same renderer
InvocationKinds == UNION {[1..n -> {"build", "dev"}] : n \in 1..MaxInvocations}

InitRenderer ==
    /\ \E kinds \in InvocationKinds : RendererAtStart(kinds)
    /\ RegistryAtStart(<<>>)
    /\ CmdIdle
    /\ RpIdle
    /\ PrepIdle
    /\ CliIdle
    /\ CfgIdle
    /\ ValIdle

\* the invocation moves on
At(i, pc) == [invocations EXCEPT ![i].pc = pc]

\* const site = await prepareLoomSite(absoluteSourceRoot, renderer, config)
PrepareSite ==
    \E i \in DOMAIN invocations :
        /\ invocations[i].pc = "start"
        /\ invocations' = At(i, "prepared")
        /\ UNCHANGED tempRoot
        /\ UNCHANGED nonRendVars

\* await rm(tempRoot, { force: true, recursive: true })
RemoveTempRoot ==
    \E i \in DOMAIN invocations :
        /\ invocations[i].pc = "prepared"
        /\ tempRoot' = NoDirectory
        /\ invocations' = At(i, "removed")
        /\ UNCHANGED nonRendVars

\* await mkdir(tempRoot, { recursive: true }): a directory that exists is left as it is
MakeTempRoot ==
    \E i \in DOMAIN invocations :
        /\ invocations[i].pc = "removed"
        /\ tempRoot' = [tempRoot EXCEPT !.exists = TRUE]
        /\ invocations' = At(i, "made")
        /\ UNCHANGED nonRendVars

\* await cp(runtimeTemplateRoot, tempRoot, { recursive: true }): creates the
\* directory when it is missing, leaves generated files in place
CopyTemplate ==
    \E i \in DOMAIN invocations :
        /\ invocations[i].pc = "made"
        /\ tempRoot' = [tempRoot EXCEPT !.exists = TRUE, !.template = TRUE]
        /\ invocations' = At(i, "copied")
        /\ UNCHANGED nonRendVars

\* await writePreparedSite(site, tempRoot): mkdir(content, { recursive: true })
\* and the content files, then the generated route and plugin modules under
\* src, where writeFile rejects when the template's src directory is missing
WritePreparedSite ==
    \E i \in DOMAIN invocations :
        /\ invocations[i].pc = "copied"
        /\ IF tempRoot.template
           THEN /\ tempRoot' = [tempRoot EXCEPT !.content = i, !.site = i]
                /\ invocations' = At(i, "written")
           ELSE /\ tempRoot' = [tempRoot EXCEPT !.exists = TRUE, !.content = i]
                /\ invocations' = At(i, "failed")
        /\ UNCHANGED nonRendVars

\* build: await viteBuild(...) / the astro build process, which returns or rejects
RunBuild ==
    \E i \in DOMAIN invocations :
        /\ invocations[i].kind = "build"
        /\ invocations[i].pc = "written"
        /\ invocations' = At(i, "built")
        /\ UNCHANGED tempRoot
        /\ UNCHANGED nonRendVars

\* build: finally { await context.cleanup() }
BuildCleanup ==
    \E i \in DOMAIN invocations :
        /\ invocations[i].kind = "build"
        /\ invocations[i].pc = "built"
        /\ tempRoot' = NoDirectory
        /\ invocations' = At(i, "done")
        /\ UNCHANGED nonRendVars

\* dev: the server is started on tempRoot and the dev call returns
StartDevServer ==
    \E i \in DOMAIN invocations :
        /\ invocations[i].kind = "dev"
        /\ invocations[i].pc = "written"
        /\ invocations' = At(i, "serving")
        /\ UNCHANGED tempRoot
        /\ UNCHANGED nonRendVars

\* close() is called: the server is stopped
CloseServer ==
    \E i \in DOMAIN invocations :
        /\ invocations[i].kind = "dev"
        /\ invocations[i].pc = "serving"
        /\ invocations' = At(i, "closing")
        /\ UNCHANGED tempRoot
        /\ UNCHANGED nonRendVars

\* close(): await context.cleanup()
CloseCleanup ==
    \E i \in DOMAIN invocations :
        /\ invocations[i].kind = "dev"
        /\ invocations[i].pc = "closing"
        /\ tempRoot' = NoDirectory
        /\ invocations' = At(i, "closed")
        /\ UNCHANGED nonRendVars

NextRenderer ==
    \/ PrepareSite
    \/ RemoveTempRoot
    \/ MakeTempRoot
    \/ CopyTemplate
    \/ WritePreparedSite
    \/ RunBuild
    \/ BuildCleanup
    \/ StartDevServer
    \/ CloseServer
    \/ CloseCleanup

SpecRenderer == InitRenderer /\ [][NextRenderer]_vars

-----------------------------------------------------------------------------
(* Properties of registration *)

ContextKeys ==
    {"seed", "list", "validate", "build", "dev", "__loomRenderer", "root", "config"}

\* the context createRuntime's createLoom call starts from
InitialSeed == CreateLoom(CreateRuntimeInitialContext)

\* the setup invocations before call k that returned an object holding key
ContributorsBefore(k, key) ==
    {j \in 1..(k - 1) :
        /\ setupCalls[j].outcome.kind = "return"
        /\ setupCalls[j].outcome.type = "object"
        /\ key \in DOMAIN setupCalls[j].outcome.provided}

Last(S) == CHOOSE j \in S : \A i \in S : i <= j

\* C1: setups are invoked in declared order, each once (the k-th invocation is
\* the k-th declared plugin, and a completed registration has invoked all of
\* them); the context the k-th setup observes holds exactly the keys of the
\* initial seed and of the objects returned by setups 1..k-1, each with a value
\* one of those setups (or the seed) gave it.
C1_SetupOrderAndVisibility ==
    /\ Len(setupCalls) <= Len(runtimePlugins)
    /\ regPc = "registered" => Len(setupCalls) = Len(runtimePlugins)
    /\ \A k \in 1..Len(setupCalls) :
        /\ setupCalls[k].plugin = runtimePlugins[k]
        /\ setupCalls[k].position = k
        /\ DOMAIN setupCalls[k].context =
              DOMAIN InitialSeed \cup {key \in ContextKeys : ContributorsBefore(k, key) # {}}
        /\ \A key \in DOMAIN setupCalls[k].context :
              \/ \E j \in ContributorsBefore(k, key) :
                    setupCalls[k].context[key] = setupCalls[j].outcome.provided[key]
              \/ /\ ContributorsBefore(k, key) = {}
                 /\ setupCalls[k].context[key] = InitialSeed[key]

\* a completed registration of three plugins in which the second setup saw the
\* first one's contribution and not the third one's
C1_Witness ==
    /\ regPc = "registered"
    /\ Len(setupCalls) = 3
    /\ \E key \in DOMAIN setupCalls[2].context : ContributorsBefore(2, key) = {1}
    /\ \E key \in DOMAIN setupCalls[3].outcome.provided :
          key \notin DOMAIN setupCalls[2].context

\* C2: after a registration whose setups all succeeded, every key some setup
\* returned holds the value returned by the last such setup in declared order,
\* and every other key is absent or holds its initial value.
C2_LastWriterWins ==
    regPc = "registered" =>
        \A key \in ContextKeys :
            LET writers == ContributorsBefore(Len(setupCalls) + 1, key) IN
            IF writers # {}
            THEN /\ key \in DOMAIN runtimeContext
                 /\ runtimeContext[key] = setupCalls[Last(writers)].outcome.provided[key]
            ELSE /\ key \in DOMAIN runtimeContext => key \in DOMAIN InitialSeed
                 /\ key \in DOMAIN InitialSeed => runtimeContext[key] = InitialSeed[key]

\* a completed registration in which two setups returned different values for a key
C2_Witness ==
    /\ regPc = "registered"
    /\ \E key \in ContextKeys :
        \E i, j \in ContributorsBefore(Len(setupCalls) + 1, key) :
            /\ i < j
            /\ setupCalls[i].outcome.provided[key] # setupCalls[j].outcome.provided[key]

\* positions of the renderer plugins of the configuration
RendererPositions == {i \in 1..Len(runtimePlugins) : runtimePlugins[i] \in RendererPluginNames}

First(S) == CHOOSE j \in S : \A i \in S : j <= i

TwoRenderersRegistered ==
    /\ regPc = "registered"
    /\ \E i, j \in RendererPositions : runtimePlugins[i] # runtimePlugins[j]

\* C3 as stated: with two renderer plugins registered, the renderer resolved
\* from the final context is the one registered last.
C3_LaterRendererOverrides ==
    TwoRenderersRegistered =>
        renderer = RendererOf(runtimePlugins[Last(RendererPositions)])

\* C3 amended: with two renderer plugins registered, the final context holds
\* the renderer registered first; every later renderer plugin's setup returns
\* nothing; the resolved renderer is that first renderer when it is valid and
\* undefined otherwise, never a later one.
C3_FirstRendererKept ==
    TwoRenderersRegistered =>
        LET first == First(RendererPositions)
            kept == RendererOf(runtimePlugins[first])
        IN /\ Get(runtimeContext, "__loomRenderer") = kept
           /\ \A k \in RendererPositions \ {first} :
                 setupCalls[k].outcome.type = "undefined"
           /\ renderer \in {kept, Undefined}
           /\ kept \in {ViteReactRenderer, AstroRenderer} => renderer = kept

\* two different valid renderers registered, the first one resolved
C3_Witness ==
    /\ TwoRenderersRegistered
    /\ runtimePlugins[First(RendererPositions)] = "@loom/renderer-vite-react"
    /\ runtimePlugins[Last(RendererPositions)] = "@loom/renderer-astro"
    /\ renderer = ViteReactRenderer

\* C4 as stated: a throwing setup fails registration at once with an error
\* whose message contains the plugin's name and the underlying message, and
\* no later setup is invoked.
C4_FailureNamesPlugin ==
    regPc = "failed" =>
        LET k == Len(setupCalls) IN
        /\ failure.thrown
        /\ setupCalls[k].outcome.kind = "throw"
        /\ \A j \in 1..(k - 1) : setupCalls[j].outcome.kind = "return"
        /\ \A i \in 1..Len(setupCalls[k].outcome.message) :
              Contains(failure.message, setupCalls[k].outcome.message[i])
        /\ Contains(failure.message, setupCalls[k].plugin)

\* C5: when the k-th setup throws, the context is what it was just before that
\* setup was invoked, and every key contributed by setups 1..k-1 is still
\* there with the value of its last contributor.
C5_FailureKeepsEarlierContext ==
    regPc = "failed" =>
        LET k == Len(setupCalls) IN
        /\ runtimeContext = setupCalls[k].context
        /\ \A key \in ContextKeys :
              ContributorsBefore(k, key) # {} =>
                  /\ key \in DOMAIN runtimeContext
                  /\ runtimeContext[key] =
                        setupCalls[Last(ContributorsBefore(k, key))].outcome.provided[key]

\* a registration that failed after an earlier setup had contributed entries
C5_Witness ==
    /\ regPc = "failed"
    /\ Len(setupCalls) >= 2
    /\ \E key \in ContextKeys : ContributorsBefore(Len(setupCalls), key) # {}

\* C6 as stated: the context the first setup observes is exactly { root, config }.
C6_SeededWithRootAndConfig ==
    /\ regPc = "registering" /\ nextPlugin = 1 =>
          DOMAIN runtimeContext = {"root", "config"}
    /\ Len(setupCalls) >= 1 => DOMAIN setupCalls[1].context = {"root", "config"}

-----------------------------------------------------------------------------
(* Properties of the command contract *)

CommandRank(key) ==
    CASE key = "list" -> 1 [] key = "validate" -> 2 [] key = "build" -> 3 [] key = "dev" -> 4

\* the commands that are absent from a context or not functions in it
NotCallableIn(context) ==
    {key \in {"list", "validate", "build", "dev"} :
        key \notin DOMAIN context \/ context[key].t # "function"}

\* the names an error message lists after its head
NamedIn(message) ==
    {message[i] : i \in 1..Len(message)} \cap {"list", "validate", "build", "dev"}

\* C7: the check succeeds exactly when all four commands are callable;
\* otherwise it fails with one error that names exactly the commands that are
\* absent or not callable, in the order list, validate, build, dev.
C7_ContractNamesExactlyMissing ==
    cmdResult.state # "pending" =>
        LET absent == NotCallableIn(cmdContext) IN
        /\ cmdResult.state = "ok" <=> absent = {}
        /\ cmdResult.state = "error" <=> absent # {}
        /\ {cmdResult.missing[i] : i \in 1..Len(cmdResult.missing)} = absent
        /\ Len(cmdResult.missing) = Cardinality(absent)
        /\ \A i, j \in 1..Len(cmdResult.missing) :
              i < j => CommandRank(cmdResult.missing[i]) < CommandRank(cmdResult.missing[j])
        /\ NamedIn(cmdResult.message) = absent

\* a context where validate is not a function and dev is absent, checked
C7_Witness ==
    /\ cmdResult.state = "error"
    /\ cmdResult.missing = <<"validate", "dev">>
    /\ "validate" \in DOMAIN cmdContext

\* C8: a contract error carries the renderer-plugin hint exactly when build or
\* dev is missing; the configuration whose only plugin provides list and
\* validate fails naming exactly build, dev, with the hint.
C8_RendererHint ==
    /\ contract.state = "error" =>
          (Contains(contract.message, "renderer plugin")
              <=> NotCallableIn(runtimeContext) \cap {"build", "dev"} # {})
    /\ contract.state # "pending" /\ runtimePlugins = <<"partial">> =>
          /\ contract.state = "error"
          /\ contract.missing = <<"build", "dev">>
          /\ Contains(contract.message, "renderer plugin")

\* the list/validate-only configuration, checked
C8_Witness ==
    /\ runtimePlugins = <<"partial">>
    /\ contract.state = "error"

-----------------------------------------------------------------------------
(* Properties of route-path derivation *)

IndexBaseNames == {IndexName, <<"I", "n", "d", "e", "x">>}

\* the route the three rules give a file made of directories and a base name
RouteByRule(dirs, base) ==
    IF base \in IndexBaseNames
    THEN (IF dirs = <<>> THEN <<"/">> ELSE <<"/">> \o JoinSlash(dirs))
    ELSE <<"/">> \o JoinSlash(dirs \o <<base>>)

\* C9: the derived route depends on the file path alone: the extension is
\* stripped; a root file named index in any letter case maps to "/"; an index
\* file in a directory maps to "/" + the directory path; every other file maps
\* to "/" + its extension-stripped path.
C9_RoutePathRules ==
    rpDone =>
        \A dirs \in DirectoryLists, base \in BaseNames, ext \in Extensions :
            rpFile = FileOf(dirs, base, ext) => rpPath = RouteByRule(dirs, base)

\* a/Index.MDX derived to /a
C9_Witness ==
    /\ rpDone
    /\ rpFile = <<"a", "/", "I", "n", "d", "e", "x", ".", "M", "D", "X">>
    /\ rpPath = <<"/", "a">>

-----------------------------------------------------------------------------
(* Properties of site preparation *)

\* no two routes of the list share a path
PathsDistinct(list) ==
    \A i, j \in 1..Len(list) : i # j => list[i].path # list[j].path

\* C10: prepareLoomSite either fails or returns a route list in which all
\* route paths, content-derived and plugin-synthesized, are pairwise distinct.
\* Violated: content routes are pushed without a look at the paths already
\* taken, so two files with one route path are both returned.
C10_ReturnedPathsDistinct ==
    prepPc = "returned" => PathsDistinct(routes)

\* the paths of the routes of a list
PathsOf(list) == {list[i].path : i \in 1..Len(list)}

\* the pages of a hook's answer whose normalized path is the path of a route the
\* hook was handed or of a page earlier in the answer
CollidingPages(seen, pages) ==
    {k \in 1..Len(pages) :
        \/ NormalizeRoutePath(pages[k].path) \in PathsOf(seen)
        \/ \E j \in 1..(k - 1) :
              NormalizeRoutePath(pages[j].path) = NormalizeRoutePath(pages[k].path)}

\* the extendPages invocations that answered with a colliding page
CollidingInvocations ==
    {n \in 1..Len(hookLog) :
        /\ hookLog[n].hook = "extendPages"
        /\ hookLog[n].outcome.kind = "return"
        /\ CollidingPages(hookLog[n].routes, hookLog[n].outcome.value) # {}}

\* the normalized path of the first colliding page of an invocation
FirstCollision(n) ==
    LET pages == hookLog[n].outcome.value
        colliding == CollidingPages(hookLog[n].routes, pages)
    IN NormalizeRoutePath(pages[CHOOSE k \in colliding : \A j \in colliding : k <= j].path)

\* C11: an extra page whose normalized path is the path of a content route or of
\* an extra page synthesized earlier in the pass (by the same or another plugin)
\* makes prepareLoomSite fail with an error that names the colliding normalized
\* path; no prepared site is returned.
C11_ExtraPageCollisionFails ==
    \A n \in CollidingInvocations :
        /\ prepPc = "failed"
        /\ prepError.thrown
        /\ Contains(prepError.message, Text("Route path collision for \""))
        /\ Contains(prepError.message, FirstCollision(n))
        /\ pageCount = 0
        /\ n = Len(hookLog)

\* two plugins synthesize the same route from differently written paths
C11_Witness ==
    /\ hookPlugins = <<"pages-a", "pages-b">>
    /\ <<"a", ".", "m", "d", "x">> \notin DOMAIN fileSystem
    /\ CollidingInvocations = {2}
    /\ FirstCollision(2) = <<"/">> \o SamePath
    /\ prepPc = "failed"

\* the fragments a contribution supplies for a list: the entries of an array,
\* a single non-empty string, or none
Supplied(value) ==
    IF value.is = "array" THEN value.items
    ELSE IF value.is = "string" /\ value.items # <<"">> THEN value.items
    ELSE <<>>

\* whether entry n of the history is an mdxPage invocation for the file that
\* returned a contribution
Contributed(n, file) ==
    /\ hookLog[n].hook = "mdxPage"
    /\ hookLog[n].file = file
    /\ hookLog[n].outcome.kind = "return"
    /\ ~hookLog[n].outcome.value.void

RECURSIVE BeforeUpTo(_, _)
\* the before fragments contributed for the file by the first n invocations
BeforeUpTo(n, file) ==
    IF n = 0 THEN <<>>
    ELSE BeforeUpTo(n - 1, file)
         \o (IF Contributed(n, file)
             THEN Supplied(hookLog[n].outcome.value.beforeContentHtml) ELSE <<>>)

RECURSIVE AfterUpTo(_, _)
AfterUpTo(n, file) ==
    IF n = 0 THEN <<>>
    ELSE AfterUpTo(n - 1, file)
         \o (IF Contributed(n, file)
             THEN Supplied(hookLog[n].outcome.value.afterContentHtml) ELSE <<>>)

RECURSIVE ReplaceUpTo(_, _)
\* the replace fragment of the last of the first n invocations that supplied one
ReplaceUpTo(n, file) ==
    IF n = 0 THEN NoHtml
    ELSE IF Contributed(n, file) /\ hookLog[n].outcome.value.replaceContentHtml.given
    THEN hookLog[n].outcome.value.replaceContentHtml
    ELSE ReplaceUpTo(n - 1, file)

\* the plugins whose hook of the given name ran for the file, in the order they ran
PluginsRun(hook, file) ==
    LET calls == SelectSeq(hookLog, LAMBDA entry : entry.hook = hook /\ entry.file = file)
    IN [k \in 1..Len(calls) |-> calls[k].plugin]

\* the plugins of config.plugins that define the hook, in plugin order
PluginsWith(hook) == SelectSeq(hookPlugins, LAMBDA plugin : hook \in Hooks(plugin))

\* C12: a content route's before list is the concatenation in plugin order of the
\* before fragments each plugin's mdxPage hook contributed, likewise the after
\* list, and its replace fragment is that of the last plugin that supplied one
\* (unset if none did); no fragment is dropped.
C12_DecorationAccumulates ==
    \A i \in 1..Len(routes) :
        routes[i].kind = "mdx" =>
            /\ PluginsRun("mdxPage", routes[i].file) = PluginsWith("mdxPage")
            /\ routes[i].mdxDecoration.beforeContentHtml
                   = BeforeUpTo(Len(hookLog), routes[i].file)
            /\ routes[i].mdxDecoration.afterContentHtml
                   = AfterUpTo(Len(hookLog), routes[i].file)
            /\ routes[i].mdxDecoration.replaceContentHtml
                   = ReplaceUpTo(Len(hookLog), routes[i].file)

\* two plugins decorate the page of a.mdx and the site is returned
C12_Witness ==
    /\ prepPc = "returned"
    /\ hookPlugins = <<"decor-plugin", "extras-plugin">>
    /\ \E i \in 1..Len(routes) :
          /\ routes[i].file = <<"a", ".", "m", "d", "x">>
          /\ routes[i].mdxDecoration.beforeContentHtml = <<"<b>1</b>", "<b>2</b>">>
          /\ routes[i].mdxDecoration.afterContentHtml = <<"<i>decor</i>", "<i>extras</i>">>
          /\ routes[i].mdxDecoration.replaceContentHtml = Html("<p>extras</p>")

\* the invocations of a hook for a file, in the order they happened
CallsOf(hook, file) ==
    SelectSeq(hookLog, LAMBDA entry : entry.hook = hook /\ entry.file = file)

IsPrefix(short, long) ==
    /\ Len(short) <= Len(long)
    /\ SubSeq(long, 1, Len(short)) = short

\* the source recorded for a file: what its last transform hook returned, the raw
\* text when no transform hook ran
LastTransformed(file) ==
    IF CallsOf("transformMdx", file) = <<>> THEN fileSystem[file]
    ELSE CallsOf("transformMdx", file)[Len(CallsOf("transformMdx", file))].outcome.value

\* C13: the transform hooks of a file run in plugin order; the first receives the
\* raw file text, the k-th the value the (k-1)-th returned, each with the
\* frontmatter extracted from exactly the source it receives; the source recorded
\* for the file is the value the last transform hook returned.
C13_TransformChain ==
    /\ \A file \in DOMAIN fileSystem :
          LET calls == CallsOf("transformMdx", file)
          IN /\ IsPrefix(PluginsRun("transformMdx", file), PluginsWith("transformMdx"))
             /\ \A k \in 1..Len(calls) :
                   /\ calls[k].source =
                         IF k = 1 THEN fileSystem[file] ELSE calls[k - 1].outcome.value
                   /\ calls[k].frontmatter = ParseFrontmatter(calls[k].source)
    /\ \A i \in 1..Len(mdxFiles) :
          /\ PluginsRun("transformMdx", mdxFiles[i].file) = PluginsWith("transformMdx")
          /\ mdxFiles[i].source = LastTransformed(mdxFiles[i].file)

\* a.mdx goes through two transforms; the second sees the frontmatter the first added
C13_Witness ==
    /\ prepPc = "returned"
    /\ hookPlugins = <<"decor-plugin", "test-plugin">>
    /\ \E i \in 1..Len(mdxFiles) :
          /\ mdxFiles[i].file = <<"a", ".", "m", "d", "x">>
          /\ mdxFiles[i].source = AdrFrontmatter \o <<"#", " ", "A">> \o TransformMarker
          /\ CallsOf("transformMdx", mdxFiles[i].file)[2].frontmatter
                = (TypeKey :> FmString(<<"a", "d", "r">>)) @@ (SidebarKey :> FmString(<<>>))

\* the hook invocations that threw
ThrowingInvocations == {n \in 1..Len(hookLog) : hookLog[n].outcome.kind = "throw"}

\* C14: when a hook of a plugin throws, prepareLoomSite fails with an error
\* whose message names that plugin and that hook and ends with the underlying
\* message; nothing is returned and no hook is invoked after the failing one.
C14_HookFailureAborts ==
    \A n \in ThrowingInvocations :
        LET underlying == hookLog[n].outcome.error.message
        IN /\ prepPc = "failed"
           /\ prepError.thrown
           /\ Contains(prepError.message, Text(hookLog[n].plugin))
           /\ Contains(prepError.message, Text(hookLog[n].hook))
           /\ Len(underlying) <= Len(prepError.message)
           /\ SubSeq(prepError.message,
                     Len(prepError.message) - Len(underlying) + 1,
                     Len(prepError.message)) = underlying
           /\ pageCount = 0
           /\ n = Len(hookLog)

\* the second plugin's transformMdx hook throws on a file without frontmatter
C14_Witness ==
    /\ hookPlugins = <<"test-plugin", "strict-plugin">>
    /\ scanFiles = << <<"B", ".", "m", "d", "x">> >>
    /\ ThrowingInvocations = {2}
    /\ hookLog[2].hook = "transformMdx"
    /\ prepPc = "failed"
    /\ prepError.message =
          <<Text("Plugin \""), Text("strict-plugin"), Text("\" failed in hook \""),
            Text("transformMdx"), Text("\": "), Text("frontmatter required")>>

\* the place of a hook's pass in the pipeline
HookRank(hook) ==
    CASE hook = "transformMdx" -> 1
      [] hook = "mdxPage" -> 2
      [] hook = "extendLayout" -> 3
      [] hook = "extendPages" -> 4

\* C15 (as stated): no invocation of a hook of an earlier pass follows an
\* invocation of a hook of a later pass: all transformMdx invocations, over all
\* files, come before any mdxPage invocation, these before any extendLayout
\* invocation, these before any extendPages invocation.
C15_PassesNeverInterleaved ==
    \A i, j \in 1..Len(hookLog) :
        i < j => HookRank(hookLog[i].hook) <= HookRank(hookLog[j].hook)

\* the place of a content file in the enumeration
FilePosition(files, file) == CHOOSE k \in 1..Len(files) : files[k] = file

\* per file transformMdx comes before mdxPage, the files are worked on one after
\* another in enumeration order, and the per-file hooks come before every
\* extendLayout invocation, these before every extendPages invocation
OrderedPerFile(log, files) ==
    \A i, j \in 1..Len(log) :
        i < j =>
            IF log[i].file # NoFile /\ log[j].file # NoFile
            THEN IF log[i].file = log[j].file
                 THEN HookRank(log[i].hook) <= HookRank(log[j].hook)
                 ELSE FilePosition(files, log[i].file) < FilePosition(files, log[j].file)
            ELSE HookRank(log[i].hook) <= HookRank(log[j].hook)

\* C15 (amended): the hooks of one file run transformMdx first and mdxPage
\* second, file after file; every per-file invocation precedes every
\* extendLayout invocation and every extendLayout invocation precedes every
\* extendPages invocation; until the return the routes only grow at their end,
\* and the step that returns sorts them and invokes no hook.
C15_PassesOrderedPerFile ==
    [][/\ OrderedPerFile(hookLog', scanFiles')
       /\ prepPc' # "returned" => IsPrefix(routes, routes')
       /\ (prepPc' = "returned" /\ prepPc # "returned") =>
              /\ routes' = SortRoutes(routes)
              /\ hookLog' = hookLog]_vars

\* two files and a plugin with all four hooks: the second file is transformed
\* after the first was decorated, and the sort moves the root route to the front
C15_Witness ==
    /\ prepPc = "returned"
    /\ hookPlugins = <<"test-plugin">>
    /\ scanFiles = << <<"a", ".", "m", "d", "x">>,
                      <<"i", "n", "d", "e", "x", ".", "m", "d", "x">> >>
    /\ [n \in 1..Len(hookLog) |-> hookLog[n].hook] =
          <<"transformMdx", "mdxPage", "transformMdx", "mdxPage",
            "extendLayout", "extendPages">>
    /\ hookLog[2].file = scanFiles[1]
    /\ hookLog[3].file = scanFiles[2]
    /\ routes[1].path = <<"/">>
    /\ hookLog[6].routes[1].path = <<"/", "a">>

\* the content routes whose frontmatter holds no title
UntitledRoutes ==
    {i \in 1..Len(routes) :
        routes[i].kind = "mdx" /\ TitleKey \notin DOMAIN routes[i].frontmatter}

WordSeparators == {"-", "_", " "}

UpperOf(c) ==
    IF LetterIndex(LowerLetters, c) # 0 THEN UpperLetters[LetterIndex(LowerLetters, c)] ELSE c

\* the humanized form of a name: its words, split on hyphen, underscore and
\* space, each with a capital first letter, a space between them
Humanize(name) ==
    [i \in 1..Len(name) |->
        IF name[i] \in WordSeparators THEN " "
        ELSE IF i = 1 \/ name[i - 1] \in WordSeparators THEN UpperOf(name[i])
        ELSE name[i]]

\* the title the claim gives a file without a title of its own
HumanTitle(file) ==
    LET segments == Split(WithoutExt(file), "/")
        last == segments[Len(segments)]
    IN IF ToLowerCase(last) # IndexName THEN Humanize(last)
       ELSE IF Len(segments) = 1 THEN <<"H", "o", "m", "e">>
       ELSE Humanize(segments[Len(segments) - 1])

LastSegment(path) ==
    LET segments == Split(path, "/")
        filled == {k \in 1..Len(segments) : segments[k] # <<>>}
    IN IF filled = {} THEN IndexName
       ELSE segments[CHOOSE k \in filled : \A other \in filled : other <= k]

Falsy(value) ==
    \/ value = FmBoolean(FALSE)
    \/ value = FmNumber(0)
    \/ value = FmNull
    \/ value = FmString(<<>>)

ContentRoutes == {i \in 1..Len(routes) : routes[i].kind = "mdx"}

\* C17 (as stated): a content route is shown in the sidebar unless its
\* frontmatter sets the sidebar flag to a falsy value (false, 0, null or the
\* empty string), and then it is not.
C17_FalsySidebarHides ==
    \A i \in ContentRoutes :
        routes[i].showInSidebar = ~Falsy(FmGet(routes[i].frontmatter, SidebarKey))

\* C17 (amended): a content route is shown in the sidebar unless its
\* frontmatter sets the sidebar flag to the boolean false; with any other value
\* of the flag, the falsy 0, null and empty string among them, it is shown.
C17_OnlyFalseHides ==
    \A i \in ContentRoutes :
        LET sidebar == FmGet(routes[i].frontmatter, SidebarKey)
        IN /\ sidebar = FmBoolean(FALSE) => ~routes[i].showInSidebar
           /\ sidebar # FmBoolean(FALSE) => routes[i].showInSidebar
           /\ \E j \in 1..Len(mdxFiles) :
                 /\ mdxFiles[j].file = routes[i].file
                 /\ routes[i].frontmatter = ParseFrontmatter(mdxFiles[j].source)

\* sidebar: false hides the route
C17_Witness ==
    /\ prepPc = "returned"
    /\ \E i \in ContentRoutes :
          /\ FmGet(routes[i].frontmatter, SidebarKey) = FmBoolean(FALSE)
          /\ ~routes[i].showInSidebar
    /\ \E i \in ContentRoutes :
          /\ FmGet(routes[i].frontmatter, SidebarKey) = FmNumber(0)
          /\ routes[i].showInSidebar

\* the string a frontmatter holds under a key, or the fallback
StringOr(parsed, key, fallback) ==
    IF key \in DOMAIN parsed /\ parsed[key].t = "string" THEN parsed[key].v ELSE fallback

RootIndexFile == <<"i", "n", "d", "e", "x", ".", "m", "d", "x">>

Welcome == <<"W", "e", "l", "c", "o", "m", "e">>

\* C18: without hook plugins prepareLoomSite returns one content route per
\* enumerated file and nothing else; the route holds the frontmatter extracted
\* from the raw text of the file, the title, navLabel and showInSidebar that
\* follow from it, no decoration, and the site holds the raw text as the source
\* of the file and the default layout; a sole index.mdx with the title Welcome
\* gives the one route / titled Welcome.
C18_NoPluginsDefaults ==
    (prepPc = "returned" /\ hookPlugins = <<>>) =>
        /\ Len(routes) = Cardinality(DOMAIN fileSystem)
        /\ pageCount = Len(routes)
        /\ layout = DefaultLayout
        /\ \A file \in DOMAIN fileSystem :
              /\ Cardinality({i \in 1..Len(routes) : routes[i].file = file}) = 1
              /\ Cardinality({j \in 1..Len(mdxFiles) : mdxFiles[j].file = file}) = 1
              /\ \A j \in 1..Len(mdxFiles) :
                    mdxFiles[j].file = file => mdxFiles[j].source = fileSystem[file]
        /\ \A i \in 1..Len(routes) :
              LET route == routes[i]
                  parsed == ParseFrontmatter(fileSystem[route.file])
                  title == StringOr(parsed, TitleKey, LastSegment(route.path))
              IN /\ route.kind = "mdx"
                 /\ route.file \in DOMAIN fileSystem
                 /\ route.path = ToRoutePath(route.file)
                 /\ route.frontmatter = parsed
                 /\ route.title = title
                 /\ route.navLabel = StringOr(parsed, NavLabelKey, title)
                 /\ route.showInSidebar = (FmGet(parsed, SidebarKey) # FmBoolean(FALSE))
                 /\ route.mdxDecoration = EmptyDecoration
                 /\ route.html = NoHtml
        /\ (DOMAIN fileSystem = {RootIndexFile}
              /\ FmGet(ParseFrontmatter(fileSystem[RootIndexFile]), TitleKey)
                    = FmString(Welcome)) =>
              /\ Len(routes) = 1
              /\ routes[1].path = <<"/">>
              /\ routes[1].title = Welcome

\* the sole file index.mdx with the title Welcome, no plugins
C18_Witness ==
    /\ prepPc = "returned"
    /\ hookPlugins = <<>>
    /\ DOMAIN fileSystem = {RootIndexFile}
    /\ Len(routes) = 1
    /\ routes[1].path = <<"/">>
    /\ routes[1].title = Welcome
    /\ routes[1].frontmatter =
          (TitleKey :> FmString(Welcome)) @@ (SidebarKey :> FmBoolean(FALSE))

HideFlags == {"hideDefaultHeader", "hideDefaultFooter", "hideDefaultSidebar"}

\* the extendLayout invocations that returned a contribution holding the flag
Suppliers(flag) ==
    {n \in 1..Len(hookLog) :
        /\ hookLog[n].hook = "extendLayout"
        /\ hookLog[n].outcome.kind = "return"
        /\ ~hookLog[n].outcome.value.void
        /\ hookLog[n].outcome.value[flag].given}

SuppliedFlag(n, flag) == hookLog[n].outcome.value[flag].flag

\* C19: the extendLayout hooks run in plugin order and each hide flag of the
\* layout is the value of the last invocation that supplied one, false when
\* none did; a later false overrides an earlier true.
C19_LastSuppliedFlagWins ==
    /\ IsPrefix(PluginsRun("extendLayout", NoFile), PluginsWith("extendLayout"))
    /\ \A flag \in HideFlags :
          LET suppliers == Suppliers(flag)
          IN layout[flag] =
                IF suppliers = {} THEN FALSE
                ELSE SuppliedFlag(CHOOSE n \in suppliers : \A m \in suppliers : m <= n, flag)

\* layout-plugin hides the header and shows the footer, decor-plugin after it
\* shows the header and hides the footer
C19_Witness ==
    /\ prepPc = "returned"
    /\ hookPlugins = <<"layout-plugin", "decor-plugin">>
    /\ Suppliers("hideDefaultHeader") = {1, 2}
    /\ SuppliedFlag(1, "hideDefaultHeader")
    /\ ~SuppliedFlag(2, "hideDefaultHeader")
    /\ ~layout.hideDefaultHeader
    /\ layout.hideDefaultFooter
    /\ layout.hideDefaultSidebar

\* C20 (as stated): a hide flag of the layout is true exactly when some
\* extendLayout invocation supplied true for it: a false supplied later does
\* not reset it.
C20_TrueSticks ==
    \A flag \in HideFlags :
        layout[flag] = (\E n \in Suppliers(flag) : SuppliedFlag(n, flag))

\* C20 (amended): a step that logs an extendLayout invocation supplying a
\* value for a hide flag sets the flag to that value, a supplied false
\* resetting a true; every other step leaves the flag as it is.
C20_SuppliedValueReplaces ==
    [][\A flag \in HideFlags :
          IF /\ Len(hookLog') = Len(hookLog) + 1
             /\ hookLog'[Len(hookLog')].hook = "extendLayout"
             /\ hookLog'[Len(hookLog')].outcome.kind = "return"
             /\ ~hookLog'[Len(hookLog')].outcome.value.void
             /\ hookLog'[Len(hookLog')].outcome.value[flag].given
          THEN layout'[flag] = hookLog'[Len(hookLog')].outcome.value[flag].flag
          ELSE layout'[flag] = layout[flag]]_vars

\* a flag that one plugin set and a later plugin reset is false in the site
C20_Witness ==
    /\ prepPc = "returned"
    /\ \E flag \in HideFlags :
          \E m, n \in Suppliers(flag) :
              /\ m < n
              /\ SuppliedFlag(m, flag)
              /\ ~SuppliedFlag(n, flag)
              /\ \A later \in Suppliers(flag) : later <= n
              /\ ~layout[flag]

\* whether entry n of the history is an extendLayout invocation that returned
\* a contribution
ContributedLayout(n) ==
    /\ hookLog[n].hook = "extendLayout"
    /\ hookLog[n].outcome.kind = "return"
    /\ ~hookLog[n].outcome.value.void

RECURSIVE SlotUpTo(_, _)
\* the fragments contributed for the region by the first n invocations
SlotUpTo(n, region) ==
    IF n = 0 THEN <<>>
    ELSE SlotUpTo(n - 1, region)
         \o (IF ContributedLayout(n)
             THEN Supplied(hookLog[n].outcome.value.slots[region]) ELSE <<>>)

\* C21: each slot region of the layout holds the concatenation, in plugin
\* order, of the fragments the extendLayout hooks contributed for the region,
\* each plugin's fragments in its own order, none dropped, none twice.
C21_SlotsAccumulate ==
    /\ IsPrefix(PluginsRun("extendLayout", NoFile), PluginsWith("extendLayout"))
    /\ prepPc \in {"extendPages", "returned"} =>
          PluginsRun("extendLayout", NoFile) = PluginsWith("extendLayout")
    /\ \A region \in SlotRegions :
          layout.slots[region] = SlotUpTo(Len(hookLog), region)

\* layout-plugin gives two fragments for sidebarTop, decor-plugin after it one
C21_Witness ==
    /\ prepPc = "returned"
    /\ hookPlugins = <<"layout-plugin", "decor-plugin">>
    /\ layout.slots.sidebarTop = <<"<a>1</a>", "<a>2</a>", "<a>decor</a>">>
    /\ layout.slots.footer = <<>>

\* the class-name fragment entry n of the history contributed for the region,
\* empty when it contributed none
ClassFragment(n, region) ==
    IF ContributedLayout(n) /\ region \in DOMAIN hookLog[n].outcome.value.classNames
    THEN hookLog[n].outcome.value.classNames[region]
    ELSE <<>>

RECURSIVE ClassFragmentsJoined(_, _)
\* the non-empty fragments of the first n invocations, a space between them
ClassFragmentsJoined(n, region) ==
    IF n = 0 THEN <<>>
    ELSE LET before == ClassFragmentsJoined(n - 1, region)
             fragment == ClassFragment(n, region)
         IN IF fragment = <<>> THEN before
            ELSE IF before = <<>> /\ \A m \in 1..(n - 1) : ClassFragment(m, region) = <<>>
            THEN fragment
            ELSE before \o <<" ">> \o fragment

\* a class name that is set is neither empty nor has white space at its ends
ClassNamesWellFormed ==
    \A region \in ClassRegions :
        layout.classNames[region].given =>
            /\ layout.classNames[region].text # <<>>
            /\ Trim(layout.classNames[region].text) = layout.classNames[region].text

\* C22 (as stated): the class name of a region is the trimmed space-joined
\* concatenation, in plugin order, of the non-empty fragments contributed for
\* it, unset when that is empty, and never an empty or blank string.
C22_ClassNamesJoinedThenTrimmed ==
    /\ ClassNamesWellFormed
    /\ \A region \in ClassRegions :
          LET joined == Trim(ClassFragmentsJoined(Len(hookLog), region))
          IN layout.classNames[region] = IF joined = <<>> THEN NoText ELSE TextOf(joined)

RECURSIVE ClassNameUpTo(_, _)
\* the class name after the first n invocations: each non-empty fragment is
\* joined by a space to the name so far and the result is trimmed at once
ClassNameUpTo(n, region) ==
    IF n = 0 THEN <<>>
    ELSE LET before == ClassNameUpTo(n - 1, region)
             fragment == ClassFragment(n, region)
         IN IF fragment = <<>> THEN before
            ELSE IF before = <<>> THEN Trim(fragment)
            ELSE Trim(before \o <<" ">> \o fragment)

\* C22 (amended): the class name of a region is built plugin by plugin in
\* plugin order: each non-empty fragment is joined by a space to the name so
\* far and the result trimmed before the next plugin; the region is unset when
\* the result is empty and never an empty or blank string.
C22_ClassNamesTrimmedEachStep ==
    /\ ClassNamesWellFormed
    /\ \A region \in ClassRegions :
          LET name == ClassNameUpTo(Len(hookLog), region)
          IN layout.classNames[region] = IF name = <<>> THEN NoText ELSE TextOf(name)

\* decor-plugin gives " wide " for the root, layout-plugin after it "dark" and a
\* blank for main
C22_Witness ==
    /\ prepPc = "returned"
    /\ hookPlugins = <<"decor-plugin", "layout-plugin">>
    /\ layout.classNames.root = TextOf(<<"w", "i", "d", "e", " ", "d", "a", "r", "k">>)
    /\ layout.classNames.main = NoText
    /\ layout.classNames.footer = NoText

RECURSIVE PagesUpTo(_)
\* the extra pages the extendPages hooks returned in the first n invocations
PagesUpTo(n) ==
    IF n = 0 THEN <<>>
    ELSE PagesUpTo(n - 1)
         \o (IF hookLog[n].hook = "extendPages" /\ hookLog[n].outcome.kind = "return"
             THEN hookLog[n].outcome.value ELSE <<>>)

\* C23: the routes of a returned site are in non-decreasing order of path (as
\* localeCompare orders them), hold one content route for every content file
\* and one html route for every extra page a hook returned, nothing else, and
\* pageCount is their number.
C23_ReturnedRoutesSortedAndComplete ==
    prepPc = "returned" =>
        LET pages == PagesUpTo(Len(hookLog))
        IN /\ \A i, j \in 1..Len(routes) :
                 i < j => LocaleCompare(routes[i].path, routes[j].path) <= 0
           /\ \A file \in DOMAIN fileSystem :
                 Cardinality({i \in 1..Len(routes) :
                                 routes[i].kind = "mdx" /\ routes[i].file = file}) = 1
           /\ \A k \in 1..Len(pages) :
                 Cardinality({i \in 1..Len(routes) :
                                 /\ routes[i].kind = "html"
                                 /\ routes[i].path = NormalizeRoutePath(pages[k].path)
                                 /\ routes[i].html = Html(pages[k].html)}) = 1
           /\ Len(routes) = Cardinality(DOMAIN fileSystem) + Len(pages)
           /\ pageCount = Len(routes)

\* two content files pushed as /a and / and two extra pages: the root comes
\* first, four routes are returned
C23_Witness ==
    /\ prepPc = "returned"
    /\ Len(mdxFiles) = 2
    /\ ToRoutePath(mdxFiles[1].file) = <<"/", "a">>
    /\ ToRoutePath(mdxFiles[2].file) = <<"/">>
    /\ Len(PagesUpTo(Len(hookLog))) = 2
    /\ routes[1].path = <<"/">>
    /\ pageCount = 4

\* a normalized route path: a leading slash, no trailing slash except for the root
IsNormalizedPath(path) ==
    /\ StartsWith(path, <<"/">>)
    /\ EndsWith(path, <<"/">>) => path = <<"/">>

\* C24: every route path of a returned site starts with a slash and, unless it
\* is the root path, does not end with one.
C24_RoutePathsNormalized ==
    prepPc = "returned" => \A i \in 1..Len(routes) : IsNormalizedPath(routes[i].path)

-----------------------------------------------------------------------------
(* Properties of the CLI *)

\* the calls of the history with the given name
CallsNamed(name) == {n \in 1..Len(cliLog) : cliLog[n].call = name}

\* C25: in loom build a validation result with errors is a hard stop: the
\* errors and the Build failed line are written, no renderer function is
\* called (so no site preparation starts) and the process ends with exit code 1.
C25_ValidationErrorsStopBuild ==
    (cliCommand = "build" /\ CallsNamed("validateMdxFiles") # {} /\ Len(validation) > 0) =>
        /\ cliPc = "done"
        /\ exitCode = 1
        /\ CallsNamed("renderer.build") = {}
        /\ CallsNamed("renderer.dev") = {}
        /\ cliOutput[Len(cliOutput)] = BuildFailedLine(Len(validation))
        /\ Len(cliOutput) = Len(validation) + 1

\* a renderer is registered and validation reports one error
C25_Witness ==
    /\ cliCommand = "build"
    /\ renderer = ViteReactRenderer
    /\ Len(validation) = 1
    /\ cliPc = "done"
    /\ exitCode = 1
    /\ cliLog = <<Call("validateMdxFiles")>>
    /\ cliOutput = <<ErrorLine(ValidationError("broken.mdx")),
                     <<"Build failed: ", "1", " validation error", "", ".">> >>

\* C26: when the registered plugins leave the renderer missing, loom build
\* reports that before any content is processed: validateMdxFiles is not
\* called and the No renderer configured line is all that is written.
C26_ConfigErrorBeforeContent ==
    (cliCommand = "build" /\ regPc = "registered" /\ renderer = Undefined) =>
        /\ CallsNamed("validateMdxFiles") = {}
        /\ cliPc = "done" => cliOutput = <<NoRendererLine>>

\* the command's action has come to its end
CliEnded == cliPc \in {"done", "crashed", "serving"}

\* C27: when registration leaves no valid renderer, loom build and loom dev
\* write the No renderer configured line, set exit code 1 and call neither
\* renderer.build nor renderer.dev.
C27_NoRendererReported ==
    (cliCommand \in {"build", "dev"} /\ regPc = "registered" /\ renderer = Undefined
     /\ CliEnded) =>
        /\ \E n \in 1..Len(cliOutput) : cliOutput[n] = NoRendererLine
        /\ exitCode = 1
        /\ CallsNamed("renderer.build") = {}
        /\ CallsNamed("renderer.dev") = {}

-----------------------------------------------------------------------------
(* Properties of configuration resolution *)

\* the strictly increasing maps of the positions of a list of the given length
\* into the positions of the declared list
Placements(length, declared) ==
    {f \in [1..length -> 1..Len(declared)] :
        \A j, k \in 1..length : j < k => f[j] < f[k]}

\* C28: the resolved hook-plugin list and the resolved runtime-plugin list are
\* each an order-preserving subsequence of the non-falsy entries of the declared
\* list, and a second resolution of the same declared list ends as the first did
C28_DeclaredOrderPreserved ==
    cfgPc = "resolved" =>
        /\ \E f \in Placements(Len(cfgPlugins), rawPlugins) :
              \A k \in 1..Len(cfgPlugins) :
                  /\ ~rawPlugins[f[k]].falsy
                  /\ cfgPlugins[k].name = rawPlugins[f[k]].name
                  /\ cfgPlugins[k].hooks = rawPlugins[f[k]].hooks.value
        /\ \E f \in Placements(Len(cfgRuntimePlugins), rawPlugins) :
              \A k \in 1..Len(cfgRuntimePlugins) :
                  /\ ~rawPlugins[f[k]].falsy
                  /\ cfgRuntimePlugins[k] = rawPlugins[f[k]]
        /\ cfgPrevious.ended => cfgPrevious = Resolution

\* a falsy entry between two plugins was skipped, both lists are filled, and the
\* list was resolved twice
C28_Witness ==
    /\ cfgPc = "resolved"
    /\ cfgPrevious.ended
    /\ \E i \in 1..Len(rawPlugins) : rawPlugins[i].falsy
    /\ Len(cfgPlugins) = 2
    /\ cfgPlugins[1].name # cfgPlugins[2].name
    /\ Len(cfgRuntimePlugins) >= 1

\* a declaration that is not well formed: no non-empty string name, or neither a
\* callable setup nor a hooks bundle
Malformed(plugin) ==
    /\ ~plugin.falsy
    /\ \/ plugin.name.t # "string"
       \/ plugin.name.v = ""
       \/ /\ ~(plugin.setup.given /\ plugin.setup.value.t = "function")
          /\ ~(plugin.hooks.given /\ plugin.hooks.value # Undefined)

\* C29: a declared list with a malformed declaration does not resolve
C29_MalformedDeclarationFatal ==
    cfgPc = "resolved" => \A i \in 1..Len(rawPlugins) : ~Malformed(rawPlugins[i])

-----------------------------------------------------------------------------
(* Properties of frontmatter extraction *)

\* the text begins with a line that is exactly ---
OpensWithDashes(text) ==
    /\ Len(text) >= 4
    /\ SubSeq(text, 1, 3) = Dashes
    /\ \/ text[4] = LF
       \/ /\ Len(text) >= 5
          /\ text[4] = CR
          /\ text[5] = LF

\* after its first line the text has a line that is exactly ---
ClosedByDashes(text) ==
    \E p \in 4..(Len(text) - 3) :
        /\ text[p] = LF
        /\ SubSeq(text, p + 1, p + 3) = Dashes
        /\ \/ p + 3 = Len(text)
           \/ text[p + 4] = LF
           \/ /\ p + 5 <= Len(text)
              /\ text[p + 4] = CR
              /\ text[p + 5] = LF

\* a line of the text between its first line and its end that holds a colon
\* after at least one other character
HasEntryLine(text) ==
    \E p \in 4..(Len(text) - 2) :
        /\ text[p] = LF
        /\ text[p + 1] \notin {LF, CR, ":", " "}
        /\ \E q \in (p + 2)..Len(text) :
              /\ text[q] = ":"
              /\ \A r \in (p + 1)..q : text[r] # LF

\* C30: the frontmatter extracted from a source is a key/value map, and it is
\* the empty map when the source does not begin with a --- line or when no later
\* --- line closes the block, whatever lines were read before the end
C30_FrontmatterTotal ==
    /\ prepPc \in {"transformMdx", "mdxPage"} =>
          /\ \A key \in DOMAIN frontmatter :
                frontmatter[key].t \in {"string", "number", "boolean", "object"}
          /\ ~OpensWithDashes(source) \/ ~ClosedByDashes(source) =>
                frontmatter = EmptyFrontmatter
    /\ \A i \in ContentRoutes :
          \E j \in 1..Len(mdxFiles) :
              /\ mdxFiles[j].file = routes[i].file
              /\ ~OpensWithDashes(mdxFiles[j].source) \/ ~ClosedByDashes(mdxFiles[j].source) =>
                    routes[i].frontmatter = EmptyFrontmatter

\* the site holds a route of a source without an opening --- line and a route of
\* a source whose block has an entry line and is never closed
C30_Witness ==
    /\ prepPc = "returned"
    /\ \E i, j \in ContentRoutes :
          \E k, l \in 1..Len(mdxFiles) :
              /\ mdxFiles[k].file = routes[i].file
              /\ mdxFiles[l].file = routes[j].file
              /\ ~OpensWithDashes(mdxFiles[k].source)
              /\ routes[i].frontmatter = EmptyFrontmatter
              /\ OpensWithDashes(mdxFiles[l].source)
              /\ HasEntryLine(mdxFiles[l].source)
              /\ ~ClosedByDashes(mdxFiles[l].source)
              /\ routes[j].frontmatter = EmptyFrontmatter

-----------------------------------------------------------------------------
(* Properties of loom validate *)

\* the entries of a list that are in a set, in the order of the list
Restrict(list, set) ==
    LET Kept(entry) == entry \in set IN SelectSeq(list, Kept)

-----------------------------------------------------------------------------
(* More properties of site preparation *)

\* the positions of the hook history at which a hook ran for a file
CallPositions(hook, file) ==
    {k \in 1..Len(hookLog) : hookLog[k].hook = hook /\ hookLog[k].file = file}

\* C32: an mdxPage hook of a file runs after every transformMdx hook of that
\* file; it receives the source the last transform returned and the frontmatter
\* extracted from it (checked at the invocation, which is the newest entry of
\* the history), and its title is the title of the route pushed for the file
C32_DecorateAfterTransforms ==
    /\ \A k \in 1..Len(hookLog) :
          hookLog[k].hook = "mdxPage" =>
              /\ \A j \in CallPositions("transformMdx", hookLog[k].file) : j < k
              /\ Cardinality(CallPositions("transformMdx", hookLog[k].file))
                    = Len(PluginsWith("transformMdx"))
              /\ \A i \in ContentRoutes :
                    routes[i].file = hookLog[k].file => routes[i].title = hookLog[k].title
    /\ hookLog # <<>> /\ hookLog[Len(hookLog)].hook = "mdxPage" =>
          LET call == hookLog[Len(hookLog)]
          IN /\ call.source = LastTransformed(call.file)
             /\ call.frontmatter = ParseFrontmatter(call.source)

\* index.mdx, whose own frontmatter has a title, got another frontmatter from a
\* transform: the mdxPage hook and the route have the title of the path
C32_Witness ==
    /\ prepPc = "returned"
    /\ \E k \in 1..Len(hookLog) :
          /\ hookLog[k].hook = "mdxPage"
          /\ hookLog[k].file = RootIndexFile
          /\ hookLog[k].source # fileSystem[RootIndexFile]
          /\ hookLog[k].title = IndexName
          /\ RouteTitle(ParseFrontmatter(fileSystem[RootIndexFile]), <<"/">>) = Welcome
          /\ \E i \in ContentRoutes :
                routes[i].file = RootIndexFile /\ routes[i].title = IndexName

\* the plugins whose hook ran for the whole site, in invocation order
SitePluginsRun(hook) ==
    LET calls == SelectSeq(hookLog, LAMBDA entry : entry.hook = hook)
    IN [k \in 1..Len(calls) |-> calls[k].plugin]

\* C33: when prepareLoomSite returns, the extendLayout and the extendPages hook
\* of each entry of config.plugins ran exactly once, whatever the number of
\* content files, and its transformMdx and mdxPage hook exactly once per file
C33_HooksRunOnce ==
    prepPc = "returned" =>
        /\ SitePluginsRun("extendLayout") = PluginsWith("extendLayout")
        /\ SitePluginsRun("extendPages") = PluginsWith("extendPages")
        /\ \A file \in DOMAIN fileSystem :
              /\ PluginsRun("transformMdx", file) = PluginsWith("transformMdx")
              /\ PluginsRun("mdxPage", file) = PluginsWith("mdxPage")
        /\ Len(hookLog)
              = Len(PluginsWith("extendLayout")) + Len(PluginsWith("extendPages"))
                + Cardinality(DOMAIN fileSystem)
                  * (Len(PluginsWith("transformMdx")) + Len(PluginsWith("mdxPage")))

\* two files and two plugins that between them define every hook
C33_Witness ==
    /\ prepPc = "returned"
    /\ Cardinality(DOMAIN fileSystem) = 2
    /\ Len(PluginsWith("transformMdx")) = 2
    /\ Len(PluginsWith("mdxPage")) = 2
    /\ Len(PluginsWith("extendLayout")) = 2
    /\ Len(PluginsWith("extendPages")) = 1
    /\ Len(hookLog) = 11

\* C34: every hook is handed the renderer id prepareLoomSite was called with,
\* and a call on the same files and plugins with another renderer id ends as
\* the earlier call did: the same routes, layout and content sources, or the
\* same error (no hook of the model reads the renderer id)
C34_RendererIdNotBranchedOn ==
    /\ \A k \in 1..Len(hookLog) : hookLog[k].renderer = prepRenderer
    /\ prepPrevious.ended /\ prepPc \in {"returned", "failed"} =>
          /\ prepPrevious.renderer # prepRenderer
          /\ prepPrevious.pc = prepPc
          /\ prepPrevious.routes = routes
          /\ prepPrevious.layout = layout
          /\ prepPrevious.mdxFiles = mdxFiles
          /\ prepPrevious.pageCount = pageCount
          /\ prepPrevious.error = prepError

\* two files whose routes the sort reorders, hooks that ran, and both calls returned
C34_Witness ==
    /\ prepPc = "returned"
    /\ prepPrevious.ended
    /\ prepPrevious.renderer = "astro"
    /\ prepRenderer = "vite-react"
    /\ Len(hookLog) >= 3
    /\ Len(routes) >= 2
    /\ \E i \in 1..Len(mdxFiles) : mdxFiles[i].file # routes[i].file

-----------------------------------------------------------------------------
(* More properties of configuration resolution *)

\* C35: the plugins of a resolved configuration have pairwise distinct names
C35_PluginNamesDistinct ==
    cfgPc = "resolved" =>
        /\ \A j, k \in 1..Len(cfgPlugins) :
              j # k => cfgPlugins[j].name # cfgPlugins[k].name
        /\ \A j, k \in 1..Len(cfgRuntimePlugins) :
              j # k => cfgRuntimePlugins[j].name # cfgRuntimePlugins[k].name

\* the routes of the content files, in the order of scanResult.files and no other
IsContentRoutes(seen) ==
    /\ Len(seen) = Len(scanFiles)
    /\ \A i \in 1..Len(seen) : seen[i].kind = "mdx" /\ seen[i].file = scanFiles[i]

\* the list is the earlier one followed by one html route per page, in their order
IsExtendedBy(seen, earlier, pages) ==
    /\ Len(seen) = Len(earlier) + Len(pages)
    /\ SubSeq(seen, 1, Len(earlier)) = earlier
    /\ \A i \in 1..Len(pages) :
          /\ seen[Len(earlier) + i].kind = "html"
          /\ seen[Len(earlier) + i].path = NormalizeRoutePath(pages[i].path)
          /\ seen[Len(earlier) + i].html = Html(pages[i].html)

\* the extendPages invocations, in invocation order
PagesCalls == SelectSeq(hookLog, LAMBDA entry : entry.hook = "extendPages")

\* C36: an extendLayout hook is handed the content routes and no other route;
\* the first extendPages hook likewise, and each later one the list the hook
\* before it was handed followed by the pages that hook returned, so that no
\* hook is handed a page of its own or of a later plugin
C36_RoutesSeenGrow ==
    /\ \A k \in 1..Len(hookLog) :
          hookLog[k].hook = "extendLayout" => IsContentRoutes(hookLog[k].routes)
    /\ PagesCalls # <<>> => IsContentRoutes(PagesCalls[1].routes)
    /\ \A k \in 2..Len(PagesCalls) :
          IsExtendedBy(PagesCalls[k].routes, PagesCalls[k - 1].routes,
                       PagesCalls[k - 1].outcome.value)

\* the second extendPages hook was handed the page of the first
C36_Witness ==
    /\ prepPc = "returned"
    /\ Len(mdxFiles) >= 1
    /\ \E k \in 1..Len(hookLog) : hookLog[k].hook = "extendLayout"
    /\ Len(PagesCalls) = 2
    /\ Len(PagesCalls[2].routes) = Len(mdxFiles) + 1
    /\ PagesCalls[2].routes[Len(mdxFiles) + 1].kind = "html"
    /\ Len(routes) = Len(mdxFiles) + 2

\* C37: normalizing a path a plugin supplied a second time changes nothing, and
\* no two routes of a returned site have paths that a further normalization
\* makes equal
C37_NormalizationIdempotent ==
    /\ \A k \in 1..Len(PagesCalls) :
          PagesCalls[k].outcome.kind = "return" =>
              \A i \in 1..Len(PagesCalls[k].outcome.value) :
                  LET path == PagesCalls[k].outcome.value[i].path
                  IN NormalizeRoutePath(NormalizeRoutePath(path)) = NormalizeRoutePath(path)
    /\ prepPc = "returned" =>
          \A i, j \in 1..Len(routes) :
              i # j => NormalizeRoutePath(routes[i].path) # NormalizeRoutePath(routes[j].path)

\* C38: a returned site holds one (file, source) entry per file of
\* scanResult.files, in that order, with the source the last transform hook of
\* the file returned; every entry has exactly one mdx route and every mdx route
\* an entry; an html route has no file and an empty frontmatter
C38_ContentEntriesMatchRoutes ==
    prepPc = "returned" =>
        /\ Len(mdxFiles) = Len(scanFiles)
        /\ \A i \in 1..Len(mdxFiles) :
              /\ mdxFiles[i].file = scanFiles[i]
              /\ mdxFiles[i].source = LastTransformed(scanFiles[i])
              /\ Cardinality({r \in ContentRoutes : routes[r].file = mdxFiles[i].file}) = 1
        /\ \A r \in ContentRoutes : \E i \in 1..Len(mdxFiles) : mdxFiles[i].file = routes[r].file
        /\ \A r \in 1..Len(routes) :
              routes[r].kind # "mdx" =>
                  /\ routes[r].kind = "html"
                  /\ routes[r].file = NoFile
                  /\ routes[r].frontmatter = EmptyFrontmatter

\* two files, one of them with a transformed source and a frontmatter, and an
\* html route between their routes
C38_Witness ==
    /\ prepPc = "returned"
    /\ Len(mdxFiles) = 2
    /\ \E i \in 1..2 : mdxFiles[i].source # fileSystem[mdxFiles[i].file]
    /\ Len(routes) = 3
    /\ routes[2].kind = "html"
    /\ routes[1].kind = "mdx"
    /\ routes[1].frontmatter # EmptyFrontmatter
    /\ routes[1].file = mdxFiles[2].file

-----------------------------------------------------------------------------
(* Properties of the renderers *)

\* C39: while a dev server is running (its dev call has returned and its
\* close() has not been called) the renderer's runtime directory exists and
\* holds the template and the generated files of that invocation
C39_RuntimeDirIntactWhileServing ==
    \A i \in DOMAIN invocations :
        invocations[i].pc = "serving" =>
            /\ tempRoot.exists
            /\ tempRoot.template
            /\ tempRoot.content = i
            /\ tempRoot.site = i

====
